---- MODULE Spec2Model ----
(***************************************************************************)
(* A model of ICTV/organise_taxa_fasta.py: the spreadsheet filter, the     *)
(* accession parser, the file name sanitizer, the sequence index and the   *)
(* per-row FASTA writer, and main() which composes them.  A Python str is  *)
(* modelled as the sequence of its Unicode code points, so that the        *)
(* regular expressions, split() and the integer formatting of the source   *)
(* are computed character by character, on the character classes Python    *)
(* uses (Unicode 14, the database of CPython 3.11).                        *)
(***************************************************************************)
EXTENDS Integers, Sequences, FiniteSets, TLC

VARIABLES
    pc,             \* control point of the run being modelled
    segment,        \* args.segment: 'L', 'M', 'S' or 'all'
    filters,        \* args.family, args.genus, args.species (<<>> is None)
    table,          \* the rows pd.read_excel returns
    archive,        \* the records SeqIO.parse yields, in file order
    df,             \* the filtered frame main() holds
    accessions,     \* the set of identifiers main() collects from df
    sequences,      \* the dict read_fasta_sequences returns
    files,          \* the output folder: file name -> records written
    row_i,          \* number of rows write_fasta_files has processed
    log,            \* the records handed to logging
    exc,            \* the exception that escaped, or "none"
    accession_str,  \* argument of parse_accession_ids
    cell,           \* how accession_str was composed (groups, tokens, separators)
    acc_dict,       \* value returned by parse_accession_ids
    filename,       \* argument of sanitize_filename
    sanitized       \* value returned by sanitize_filename

vars == <<pc, segment, filters, table, archive, df, accessions, sequences, files,
          row_i, log, exc, accession_str, cell, acc_dict, filename, sanitized>>

(***************************************************************************)
(* Strings: code points, and the ASCII characters by their glyph.          *)
(***************************************************************************)
\* the printable ASCII characters, code 32 first (the grave accent, code
\* 96, by name)
AsciiPrintable ==
    <<" ","!","\"","#","$","%","&","'","(",")","*","+",",","-",".","/",
      "0","1","2","3","4","5","6","7","8","9",":",";","<","=",">","?",
      "@","A","B","C","D","E","F","G","H","I","J","K","L","M","N","O",
      "P","Q","R","S","T","U","V","W","X","Y","Z","[","\\","]","^","_",
      "grave","a","b","c","d","e","f","g","h","i","j","k","l","m","n","o",
      "p","q","r","s","t","u","v","w","x","y","z","{","|","}","~">>

\* ord() of an ASCII character
ord(ch) ==
    IF ch = "\t" THEN 9
    ELSE IF ch = "\n" THEN 10
    ELSE IF ch = "\f" THEN 12
    ELSE IF ch = "\r" THEN 13
    ELSE 31 + CHOOSE i \in DOMAIN AsciiPrintable : AsciiPrintable[i] = ch

\* the str spelled by a tuple of ASCII characters
S(t) ==
    [i \in DOMAIN t |-> ord(t[i])]

Range(f) ==
    { f[i] : i \in DOMAIN f }

Hyphen == ord("-")
Comma == ord(",")
Colon == ord(":")
Dot == ord(".")
Underscore == ord("_")
Zero == ord("0")
Newline == ord("\n")

\* the str 'all'
All ==
    S(<<"a", "l", "l">>)

(***************************************************************************)
(* The character classes of the re module on str patterns.                 *)
(***************************************************************************)
InRanges(c, R) ==
    \E r \in R : r[1] <= c /\ c <= r[2]

\* str.isspace(): the characters \s matches
SpaceRanges ==
    { <<9, 13>>, <<28, 32>>, <<133, 133>>, <<160, 160>>, <<5760, 5760>>, <<8192, 8202>>,
      <<8232, 8233>>, <<8239, 8239>>, <<8287, 8287>>, <<12288, 12288>> }

\* the zero of every run of ten decimal digits (str.isdecimal()): the
\* characters \d matches and int() reads
DigitZeros ==
    { 48, 1632, 1776, 1984, 2406, 2534, 2662, 2790, 2918, 3046,
      3174, 3302, 3430, 3558, 3664, 3792, 3872, 4160, 4240, 6112,
      6160, 6470, 6608, 6784, 6800, 6992, 7088, 7232, 7248, 42528,
      43216, 43264, 43472, 43504, 43600, 44016, 65296, 66720, 68912, 69734,
      69872, 69942, 70096, 70384, 70736, 70864, 71248, 71360, 71472, 71904,
      72016, 72784, 73040, 73120, 92768, 92864, 93008, 120782, 120792, 120802,
      120812, 120822, 123200, 123632, 125264, 130032 }

\* str.isalnum() and the underscore: the characters \w matches
WordRanges ==
    { <<48, 57>>, <<65, 90>>, <<95, 95>>, <<97, 122>>, <<170, 170>>, <<178, 179>>,
      <<181, 181>>, <<185, 186>>, <<188, 190>>, <<192, 214>>, <<216, 246>>, <<248, 705>>,
      <<710, 721>>, <<736, 740>>, <<748, 748>>, <<750, 750>>, <<880, 884>>, <<886, 887>>,
      <<890, 893>>, <<895, 895>>, <<902, 902>>, <<904, 906>>, <<908, 908>>, <<910, 929>>,
      <<931, 1013>>, <<1015, 1153>>, <<1162, 1327>>, <<1329, 1366>>, <<1369, 1369>>, <<1376, 1416>>,
      <<1488, 1514>>, <<1519, 1522>>, <<1568, 1610>>, <<1632, 1641>>, <<1646, 1647>>, <<1649, 1747>>,
      <<1749, 1749>>, <<1765, 1766>>, <<1774, 1788>>, <<1791, 1791>>, <<1808, 1808>>, <<1810, 1839>>,
      <<1869, 1957>>, <<1969, 1969>>, <<1984, 2026>>, <<2036, 2037>>, <<2042, 2042>>, <<2048, 2069>>,
      <<2074, 2074>>, <<2084, 2084>>, <<2088, 2088>>, <<2112, 2136>>, <<2144, 2154>>, <<2160, 2183>>,
      <<2185, 2190>>, <<2208, 2249>>, <<2308, 2361>>, <<2365, 2365>>, <<2384, 2384>>, <<2392, 2401>>,
      <<2406, 2415>>, <<2417, 2432>>, <<2437, 2444>>, <<2447, 2448>>, <<2451, 2472>>, <<2474, 2480>>,
      <<2482, 2482>>, <<2486, 2489>>, <<2493, 2493>>, <<2510, 2510>>, <<2524, 2525>>, <<2527, 2529>>,
      <<2534, 2545>>, <<2548, 2553>>, <<2556, 2556>>, <<2565, 2570>>, <<2575, 2576>>, <<2579, 2600>>,
      <<2602, 2608>>, <<2610, 2611>>, <<2613, 2614>>, <<2616, 2617>>, <<2649, 2652>>, <<2654, 2654>>,
      <<2662, 2671>>, <<2674, 2676>>, <<2693, 2701>>, <<2703, 2705>>, <<2707, 2728>>, <<2730, 2736>>,
      <<2738, 2739>>, <<2741, 2745>>, <<2749, 2749>>, <<2768, 2768>>, <<2784, 2785>>, <<2790, 2799>>,
      <<2809, 2809>>, <<2821, 2828>>, <<2831, 2832>>, <<2835, 2856>>, <<2858, 2864>>, <<2866, 2867>>,
      <<2869, 2873>>, <<2877, 2877>>, <<2908, 2909>>, <<2911, 2913>>, <<2918, 2927>>, <<2929, 2935>>,
      <<2947, 2947>>, <<2949, 2954>>, <<2958, 2960>>, <<2962, 2965>>, <<2969, 2970>>, <<2972, 2972>>,
      <<2974, 2975>>, <<2979, 2980>>, <<2984, 2986>>, <<2990, 3001>>, <<3024, 3024>>, <<3046, 3058>>,
      <<3077, 3084>>, <<3086, 3088>>, <<3090, 3112>>, <<3114, 3129>>, <<3133, 3133>>, <<3160, 3162>>,
      <<3165, 3165>>, <<3168, 3169>>, <<3174, 3183>>, <<3192, 3198>>, <<3200, 3200>>, <<3205, 3212>>,
      <<3214, 3216>>, <<3218, 3240>>, <<3242, 3251>>, <<3253, 3257>>, <<3261, 3261>>, <<3293, 3294>>,
      <<3296, 3297>>, <<3302, 3311>>, <<3313, 3314>>, <<3332, 3340>>, <<3342, 3344>>, <<3346, 3386>>,
      <<3389, 3389>>, <<3406, 3406>>, <<3412, 3414>>, <<3416, 3425>>, <<3430, 3448>>, <<3450, 3455>>,
      <<3461, 3478>>, <<3482, 3505>>, <<3507, 3515>>, <<3517, 3517>>, <<3520, 3526>>, <<3558, 3567>>,
      <<3585, 3632>>, <<3634, 3635>>, <<3648, 3654>>, <<3664, 3673>>, <<3713, 3714>>, <<3716, 3716>>,
      <<3718, 3722>>, <<3724, 3747>>, <<3749, 3749>>, <<3751, 3760>>, <<3762, 3763>>, <<3773, 3773>>,
      <<3776, 3780>>, <<3782, 3782>>, <<3792, 3801>>, <<3804, 3807>>, <<3840, 3840>>, <<3872, 3891>>,
      <<3904, 3911>>, <<3913, 3948>>, <<3976, 3980>>, <<4096, 4138>>, <<4159, 4169>>, <<4176, 4181>>,
      <<4186, 4189>>, <<4193, 4193>>, <<4197, 4198>>, <<4206, 4208>>, <<4213, 4225>>, <<4238, 4238>>,
      <<4240, 4249>>, <<4256, 4293>>, <<4295, 4295>>, <<4301, 4301>>, <<4304, 4346>>, <<4348, 4680>>,
      <<4682, 4685>>, <<4688, 4694>>, <<4696, 4696>>, <<4698, 4701>>, <<4704, 4744>>, <<4746, 4749>>,
      <<4752, 4784>>, <<4786, 4789>>, <<4792, 4798>>, <<4800, 4800>>, <<4802, 4805>>, <<4808, 4822>>,
      <<4824, 4880>>, <<4882, 4885>>, <<4888, 4954>>, <<4969, 4988>>, <<4992, 5007>>, <<5024, 5109>>,
      <<5112, 5117>>, <<5121, 5740>>, <<5743, 5759>>, <<5761, 5786>>, <<5792, 5866>>, <<5870, 5880>>,
      <<5888, 5905>>, <<5919, 5937>>, <<5952, 5969>>, <<5984, 5996>>, <<5998, 6000>>, <<6016, 6067>>,
      <<6103, 6103>>, <<6108, 6108>>, <<6112, 6121>>, <<6128, 6137>>, <<6160, 6169>>, <<6176, 6264>>,
      <<6272, 6276>>, <<6279, 6312>>, <<6314, 6314>>, <<6320, 6389>>, <<6400, 6430>>, <<6470, 6509>>,
      <<6512, 6516>>, <<6528, 6571>>, <<6576, 6601>>, <<6608, 6618>>, <<6656, 6678>>, <<6688, 6740>>,
      <<6784, 6793>>, <<6800, 6809>>, <<6823, 6823>>, <<6917, 6963>>, <<6981, 6988>>, <<6992, 7001>>,
      <<7043, 7072>>, <<7086, 7141>>, <<7168, 7203>>, <<7232, 7241>>, <<7245, 7293>>, <<7296, 7304>>,
      <<7312, 7354>>, <<7357, 7359>>, <<7401, 7404>>, <<7406, 7411>>, <<7413, 7414>>, <<7418, 7418>>,
      <<7424, 7615>>, <<7680, 7957>>, <<7960, 7965>>, <<7968, 8005>>, <<8008, 8013>>, <<8016, 8023>>,
      <<8025, 8025>>, <<8027, 8027>>, <<8029, 8029>>, <<8031, 8061>>, <<8064, 8116>>, <<8118, 8124>>,
      <<8126, 8126>>, <<8130, 8132>>, <<8134, 8140>>, <<8144, 8147>>, <<8150, 8155>>, <<8160, 8172>>,
      <<8178, 8180>>, <<8182, 8188>>, <<8304, 8305>>, <<8308, 8313>>, <<8319, 8329>>, <<8336, 8348>>,
      <<8450, 8450>>, <<8455, 8455>>, <<8458, 8467>>, <<8469, 8469>>, <<8473, 8477>>, <<8484, 8484>>,
      <<8486, 8486>>, <<8488, 8488>>, <<8490, 8493>>, <<8495, 8505>>, <<8508, 8511>>, <<8517, 8521>>,
      <<8526, 8526>>, <<8528, 8585>>, <<9312, 9371>>, <<9450, 9471>>, <<10102, 10131>>, <<11264, 11492>>,
      <<11499, 11502>>, <<11506, 11507>>, <<11517, 11517>>, <<11520, 11557>>, <<11559, 11559>>, <<11565, 11565>>,
      <<11568, 11623>>, <<11631, 11631>>, <<11648, 11670>>, <<11680, 11686>>, <<11688, 11694>>, <<11696, 11702>>,
      <<11704, 11710>>, <<11712, 11718>>, <<11720, 11726>>, <<11728, 11734>>, <<11736, 11742>>, <<11823, 11823>>,
      <<12293, 12295>>, <<12321, 12329>>, <<12337, 12341>>, <<12344, 12348>>, <<12353, 12438>>, <<12445, 12447>>,
      <<12449, 12538>>, <<12540, 12543>>, <<12549, 12591>>, <<12593, 12686>>, <<12690, 12693>>, <<12704, 12735>>,
      <<12784, 12799>>, <<12832, 12841>>, <<12872, 12879>>, <<12881, 12895>>, <<12928, 12937>>, <<12977, 12991>>,
      <<13312, 19903>>, <<19968, 42124>>, <<42192, 42237>>, <<42240, 42508>>, <<42512, 42539>>, <<42560, 42606>>,
      <<42623, 42653>>, <<42656, 42735>>, <<42775, 42783>>, <<42786, 42888>>, <<42891, 42954>>, <<42960, 42961>>,
      <<42963, 42963>>, <<42965, 42969>>, <<42994, 43009>>, <<43011, 43013>>, <<43015, 43018>>, <<43020, 43042>>,
      <<43056, 43061>>, <<43072, 43123>>, <<43138, 43187>>, <<43216, 43225>>, <<43250, 43255>>, <<43259, 43259>>,
      <<43261, 43262>>, <<43264, 43301>>, <<43312, 43334>>, <<43360, 43388>>, <<43396, 43442>>, <<43471, 43481>>,
      <<43488, 43492>>, <<43494, 43518>>, <<43520, 43560>>, <<43584, 43586>>, <<43588, 43595>>, <<43600, 43609>>,
      <<43616, 43638>>, <<43642, 43642>>, <<43646, 43695>>, <<43697, 43697>>, <<43701, 43702>>, <<43705, 43709>>,
      <<43712, 43712>>, <<43714, 43714>>, <<43739, 43741>>, <<43744, 43754>>, <<43762, 43764>>, <<43777, 43782>>,
      <<43785, 43790>>, <<43793, 43798>>, <<43808, 43814>>, <<43816, 43822>>, <<43824, 43866>>, <<43868, 43881>>,
      <<43888, 44002>>, <<44016, 44025>>, <<44032, 55203>>, <<55216, 55238>>, <<55243, 55291>>, <<63744, 64109>>,
      <<64112, 64217>>, <<64256, 64262>>, <<64275, 64279>>, <<64285, 64285>>, <<64287, 64296>>, <<64298, 64310>>,
      <<64312, 64316>>, <<64318, 64318>>, <<64320, 64321>>, <<64323, 64324>>, <<64326, 64433>>, <<64467, 64829>>,
      <<64848, 64911>>, <<64914, 64967>>, <<65008, 65019>>, <<65136, 65140>>, <<65142, 65276>>, <<65296, 65305>>,
      <<65313, 65338>>, <<65345, 65370>>, <<65382, 65470>>, <<65474, 65479>>, <<65482, 65487>>, <<65490, 65495>>,
      <<65498, 65500>>, <<65536, 65547>>, <<65549, 65574>>, <<65576, 65594>>, <<65596, 65597>>, <<65599, 65613>>,
      <<65616, 65629>>, <<65664, 65786>>, <<65799, 65843>>, <<65856, 65912>>, <<65930, 65931>>, <<66176, 66204>>,
      <<66208, 66256>>, <<66273, 66299>>, <<66304, 66339>>, <<66349, 66378>>, <<66384, 66421>>, <<66432, 66461>>,
      <<66464, 66499>>, <<66504, 66511>>, <<66513, 66517>>, <<66560, 66717>>, <<66720, 66729>>, <<66736, 66771>>,
      <<66776, 66811>>, <<66816, 66855>>, <<66864, 66915>>, <<66928, 66938>>, <<66940, 66954>>, <<66956, 66962>>,
      <<66964, 66965>>, <<66967, 66977>>, <<66979, 66993>>, <<66995, 67001>>, <<67003, 67004>>, <<67072, 67382>>,
      <<67392, 67413>>, <<67424, 67431>>, <<67456, 67461>>, <<67463, 67504>>, <<67506, 67514>>, <<67584, 67589>>,
      <<67592, 67592>>, <<67594, 67637>>, <<67639, 67640>>, <<67644, 67644>>, <<67647, 67669>>, <<67672, 67702>>,
      <<67705, 67742>>, <<67751, 67759>>, <<67808, 67826>>, <<67828, 67829>>, <<67835, 67867>>, <<67872, 67897>>,
      <<67968, 68023>>, <<68028, 68047>>, <<68050, 68096>>, <<68112, 68115>>, <<68117, 68119>>, <<68121, 68149>>,
      <<68160, 68168>>, <<68192, 68222>>, <<68224, 68255>>, <<68288, 68295>>, <<68297, 68324>>, <<68331, 68335>>,
      <<68352, 68405>>, <<68416, 68437>>, <<68440, 68466>>, <<68472, 68497>>, <<68521, 68527>>, <<68608, 68680>>,
      <<68736, 68786>>, <<68800, 68850>>, <<68858, 68899>>, <<68912, 68921>>, <<69216, 69246>>, <<69248, 69289>>,
      <<69296, 69297>>, <<69376, 69415>>, <<69424, 69445>>, <<69457, 69460>>, <<69488, 69505>>, <<69552, 69579>>,
      <<69600, 69622>>, <<69635, 69687>>, <<69714, 69743>>, <<69745, 69746>>, <<69749, 69749>>, <<69763, 69807>>,
      <<69840, 69864>>, <<69872, 69881>>, <<69891, 69926>>, <<69942, 69951>>, <<69956, 69956>>, <<69959, 69959>>,
      <<69968, 70002>>, <<70006, 70006>>, <<70019, 70066>>, <<70081, 70084>>, <<70096, 70106>>, <<70108, 70108>>,
      <<70113, 70132>>, <<70144, 70161>>, <<70163, 70187>>, <<70272, 70278>>, <<70280, 70280>>, <<70282, 70285>>,
      <<70287, 70301>>, <<70303, 70312>>, <<70320, 70366>>, <<70384, 70393>>, <<70405, 70412>>, <<70415, 70416>>,
      <<70419, 70440>>, <<70442, 70448>>, <<70450, 70451>>, <<70453, 70457>>, <<70461, 70461>>, <<70480, 70480>>,
      <<70493, 70497>>, <<70656, 70708>>, <<70727, 70730>>, <<70736, 70745>>, <<70751, 70753>>, <<70784, 70831>>,
      <<70852, 70853>>, <<70855, 70855>>, <<70864, 70873>>, <<71040, 71086>>, <<71128, 71131>>, <<71168, 71215>>,
      <<71236, 71236>>, <<71248, 71257>>, <<71296, 71338>>, <<71352, 71352>>, <<71360, 71369>>, <<71424, 71450>>,
      <<71472, 71483>>, <<71488, 71494>>, <<71680, 71723>>, <<71840, 71922>>, <<71935, 71942>>, <<71945, 71945>>,
      <<71948, 71955>>, <<71957, 71958>>, <<71960, 71983>>, <<71999, 71999>>, <<72001, 72001>>, <<72016, 72025>>,
      <<72096, 72103>>, <<72106, 72144>>, <<72161, 72161>>, <<72163, 72163>>, <<72192, 72192>>, <<72203, 72242>>,
      <<72250, 72250>>, <<72272, 72272>>, <<72284, 72329>>, <<72349, 72349>>, <<72368, 72440>>, <<72704, 72712>>,
      <<72714, 72750>>, <<72768, 72768>>, <<72784, 72812>>, <<72818, 72847>>, <<72960, 72966>>, <<72968, 72969>>,
      <<72971, 73008>>, <<73030, 73030>>, <<73040, 73049>>, <<73056, 73061>>, <<73063, 73064>>, <<73066, 73097>>,
      <<73112, 73112>>, <<73120, 73129>>, <<73440, 73458>>, <<73648, 73648>>, <<73664, 73684>>, <<73728, 74649>>,
      <<74752, 74862>>, <<74880, 75075>>, <<77712, 77808>>, <<77824, 78894>>, <<82944, 83526>>, <<92160, 92728>>,
      <<92736, 92766>>, <<92768, 92777>>, <<92784, 92862>>, <<92864, 92873>>, <<92880, 92909>>, <<92928, 92975>>,
      <<92992, 92995>>, <<93008, 93017>>, <<93019, 93025>>, <<93027, 93047>>, <<93053, 93071>>, <<93760, 93846>>,
      <<93952, 94026>>, <<94032, 94032>>, <<94099, 94111>>, <<94176, 94177>>, <<94179, 94179>>, <<94208, 100343>>,
      <<100352, 101589>>, <<101632, 101640>>, <<110576, 110579>>, <<110581, 110587>>, <<110589, 110590>>, <<110592, 110882>>,
      <<110928, 110930>>, <<110948, 110951>>, <<110960, 111355>>, <<113664, 113770>>, <<113776, 113788>>, <<113792, 113800>>,
      <<113808, 113817>>, <<119520, 119539>>, <<119648, 119672>>, <<119808, 119892>>, <<119894, 119964>>, <<119966, 119967>>,
      <<119970, 119970>>, <<119973, 119974>>, <<119977, 119980>>, <<119982, 119993>>, <<119995, 119995>>, <<119997, 120003>>,
      <<120005, 120069>>, <<120071, 120074>>, <<120077, 120084>>, <<120086, 120092>>, <<120094, 120121>>, <<120123, 120126>>,
      <<120128, 120132>>, <<120134, 120134>>, <<120138, 120144>>, <<120146, 120485>>, <<120488, 120512>>, <<120514, 120538>>,
      <<120540, 120570>>, <<120572, 120596>>, <<120598, 120628>>, <<120630, 120654>>, <<120656, 120686>>, <<120688, 120712>>,
      <<120714, 120744>>, <<120746, 120770>>, <<120772, 120779>>, <<120782, 120831>>, <<122624, 122654>>, <<123136, 123180>>,
      <<123191, 123197>>, <<123200, 123209>>, <<123214, 123214>>, <<123536, 123565>>, <<123584, 123627>>, <<123632, 123641>>,
      <<124896, 124902>>, <<124904, 124907>>, <<124909, 124910>>, <<124912, 124926>>, <<124928, 125124>>, <<125127, 125135>>,
      <<125184, 125251>>, <<125259, 125259>>, <<125264, 125273>>, <<126065, 126123>>, <<126125, 126127>>, <<126129, 126132>>,
      <<126209, 126253>>, <<126255, 126269>>, <<126464, 126467>>, <<126469, 126495>>, <<126497, 126498>>, <<126500, 126500>>,
      <<126503, 126503>>, <<126505, 126514>>, <<126516, 126519>>, <<126521, 126521>>, <<126523, 126523>>, <<126530, 126530>>,
      <<126535, 126535>>, <<126537, 126537>>, <<126539, 126539>>, <<126541, 126543>>, <<126545, 126546>>, <<126548, 126548>>,
      <<126551, 126551>>, <<126553, 126553>>, <<126555, 126555>>, <<126557, 126557>>, <<126559, 126559>>, <<126561, 126562>>,
      <<126564, 126564>>, <<126567, 126570>>, <<126572, 126578>>, <<126580, 126583>>, <<126585, 126588>>, <<126590, 126590>>,
      <<126592, 126601>>, <<126603, 126619>>, <<126625, 126627>>, <<126629, 126633>>, <<126635, 126651>>, <<127232, 127244>>,
      <<130032, 130041>>, <<131072, 173791>>, <<173824, 177976>>, <<177984, 178205>>, <<178208, 183969>>, <<183984, 191456>>,
      <<194560, 195101>>, <<196608, 201546>> }

\* re.IGNORECASE on literals: <<c, r>> for every character c that matches
\* a character of smaller code, r being the smallest it matches (lower-case
\* mapping closed under the extra cases of re._casefix)
FoldPairs ==
    { <<97, 65>>, <<98, 66>>, <<99, 67>>, <<100, 68>>, <<101, 69>>, <<102, 70>>,
      <<103, 71>>, <<104, 72>>, <<105, 73>>, <<106, 74>>, <<107, 75>>, <<108, 76>>,
      <<109, 77>>, <<110, 78>>, <<111, 79>>, <<112, 80>>, <<113, 81>>, <<114, 82>>,
      <<115, 83>>, <<116, 84>>, <<117, 85>>, <<118, 86>>, <<119, 87>>, <<120, 88>>,
      <<121, 89>>, <<122, 90>>, <<224, 192>>, <<225, 193>>, <<226, 194>>, <<227, 195>>,
      <<228, 196>>, <<229, 197>>, <<230, 198>>, <<231, 199>>, <<232, 200>>, <<233, 201>>,
      <<234, 202>>, <<235, 203>>, <<236, 204>>, <<237, 205>>, <<238, 206>>, <<239, 207>>,
      <<240, 208>>, <<241, 209>>, <<242, 210>>, <<243, 211>>, <<244, 212>>, <<245, 213>>,
      <<246, 214>>, <<248, 216>>, <<249, 217>>, <<250, 218>>, <<251, 219>>, <<252, 220>>,
      <<253, 221>>, <<254, 222>>, <<257, 256>>, <<259, 258>>, <<261, 260>>, <<263, 262>>,
      <<265, 264>>, <<267, 266>>, <<269, 268>>, <<271, 270>>, <<273, 272>>, <<275, 274>>,
      <<277, 276>>, <<279, 278>>, <<281, 280>>, <<283, 282>>, <<285, 284>>, <<287, 286>>,
      <<289, 288>>, <<291, 290>>, <<293, 292>>, <<295, 294>>, <<297, 296>>, <<299, 298>>,
      <<301, 300>>, <<303, 302>>, <<304, 73>>, <<305, 73>>, <<307, 306>>, <<309, 308>>,
      <<311, 310>>, <<314, 313>>, <<316, 315>>, <<318, 317>>, <<320, 319>>, <<322, 321>>,
      <<324, 323>>, <<326, 325>>, <<328, 327>>, <<331, 330>>, <<333, 332>>, <<335, 334>>,
      <<337, 336>>, <<339, 338>>, <<341, 340>>, <<343, 342>>, <<345, 344>>, <<347, 346>>,
      <<349, 348>>, <<351, 350>>, <<353, 352>>, <<355, 354>>, <<357, 356>>, <<359, 358>>,
      <<361, 360>>, <<363, 362>>, <<365, 364>>, <<367, 366>>, <<369, 368>>, <<371, 370>>,
      <<373, 372>>, <<375, 374>>, <<376, 255>>, <<378, 377>>, <<380, 379>>, <<382, 381>>,
      <<383, 83>>, <<387, 386>>, <<389, 388>>, <<392, 391>>, <<396, 395>>, <<402, 401>>,
      <<409, 408>>, <<417, 416>>, <<419, 418>>, <<421, 420>>, <<424, 423>>, <<429, 428>>,
      <<432, 431>>, <<436, 435>>, <<438, 437>>, <<441, 440>>, <<445, 444>>, <<453, 452>>,
      <<454, 452>>, <<456, 455>>, <<457, 455>>, <<459, 458>>, <<460, 458>>, <<462, 461>>,
      <<464, 463>>, <<466, 465>>, <<468, 467>>, <<470, 469>>, <<472, 471>>, <<474, 473>>,
      <<476, 475>>, <<477, 398>>, <<479, 478>>, <<481, 480>>, <<483, 482>>, <<485, 484>>,
      <<487, 486>>, <<489, 488>>, <<491, 490>>, <<493, 492>>, <<495, 494>>, <<498, 497>>,
      <<499, 497>>, <<501, 500>>, <<502, 405>>, <<503, 447>>, <<505, 504>>, <<507, 506>>,
      <<509, 508>>, <<511, 510>>, <<513, 512>>, <<515, 514>>, <<517, 516>>, <<519, 518>>,
      <<521, 520>>, <<523, 522>>, <<525, 524>>, <<527, 526>>, <<529, 528>>, <<531, 530>>,
      <<533, 532>>, <<535, 534>>, <<537, 536>>, <<539, 538>>, <<541, 540>>, <<543, 542>>,
      <<544, 414>>, <<547, 546>>, <<549, 548>>, <<551, 550>>, <<553, 552>>, <<555, 554>>,
      <<557, 556>>, <<559, 558>>, <<561, 560>>, <<563, 562>>, <<572, 571>>, <<573, 410>>,
      <<578, 577>>, <<579, 384>>, <<583, 582>>, <<585, 584>>, <<587, 586>>, <<589, 588>>,
      <<591, 590>>, <<595, 385>>, <<596, 390>>, <<598, 393>>, <<599, 394>>, <<601, 399>>,
      <<603, 400>>, <<608, 403>>, <<611, 404>>, <<616, 407>>, <<617, 406>>, <<623, 412>>,
      <<626, 413>>, <<629, 415>>, <<640, 422>>, <<643, 425>>, <<648, 430>>, <<649, 580>>,
      <<650, 433>>, <<651, 434>>, <<652, 581>>, <<658, 439>>, <<881, 880>>, <<883, 882>>,
      <<887, 886>>, <<921, 837>>, <<924, 181>>, <<940, 902>>, <<941, 904>>, <<942, 905>>,
      <<943, 906>>, <<945, 913>>, <<946, 914>>, <<947, 915>>, <<948, 916>>, <<949, 917>>,
      <<950, 918>>, <<951, 919>>, <<952, 920>>, <<953, 837>>, <<954, 922>>, <<955, 923>>,
      <<956, 181>>, <<957, 925>>, <<958, 926>>, <<959, 927>>, <<960, 928>>, <<961, 929>>,
      <<962, 931>>, <<963, 931>>, <<964, 932>>, <<965, 933>>, <<966, 934>>, <<967, 935>>,
      <<968, 936>>, <<969, 937>>, <<970, 938>>, <<971, 939>>, <<972, 908>>, <<973, 910>>,
      <<974, 911>>, <<976, 914>>, <<977, 920>>, <<981, 934>>, <<982, 928>>, <<983, 975>>,
      <<985, 984>>, <<987, 986>>, <<989, 988>>, <<991, 990>>, <<993, 992>>, <<995, 994>>,
      <<997, 996>>, <<999, 998>>, <<1001, 1000>>, <<1003, 1002>>, <<1005, 1004>>, <<1007, 1006>>,
      <<1008, 922>>, <<1009, 929>>, <<1011, 895>>, <<1012, 920>>, <<1013, 917>>, <<1016, 1015>>,
      <<1017, 1010>>, <<1019, 1018>>, <<1021, 891>>, <<1022, 892>>, <<1023, 893>>, <<1072, 1040>>,
      <<1073, 1041>>, <<1074, 1042>>, <<1075, 1043>>, <<1076, 1044>>, <<1077, 1045>>, <<1078, 1046>>,
      <<1079, 1047>>, <<1080, 1048>>, <<1081, 1049>>, <<1082, 1050>>, <<1083, 1051>>, <<1084, 1052>>,
      <<1085, 1053>>, <<1086, 1054>>, <<1087, 1055>>, <<1088, 1056>>, <<1089, 1057>>, <<1090, 1058>>,
      <<1091, 1059>>, <<1092, 1060>>, <<1093, 1061>>, <<1094, 1062>>, <<1095, 1063>>, <<1096, 1064>>,
      <<1097, 1065>>, <<1098, 1066>>, <<1099, 1067>>, <<1100, 1068>>, <<1101, 1069>>, <<1102, 1070>>,
      <<1103, 1071>>, <<1104, 1024>>, <<1105, 1025>>, <<1106, 1026>>, <<1107, 1027>>, <<1108, 1028>>,
      <<1109, 1029>>, <<1110, 1030>>, <<1111, 1031>>, <<1112, 1032>>, <<1113, 1033>>, <<1114, 1034>>,
      <<1115, 1035>>, <<1116, 1036>>, <<1117, 1037>>, <<1118, 1038>>, <<1119, 1039>>, <<1121, 1120>>,
      <<1123, 1122>>, <<1125, 1124>>, <<1127, 1126>>, <<1129, 1128>>, <<1131, 1130>>, <<1133, 1132>>,
      <<1135, 1134>>, <<1137, 1136>>, <<1139, 1138>>, <<1141, 1140>>, <<1143, 1142>>, <<1145, 1144>>,
      <<1147, 1146>>, <<1149, 1148>>, <<1151, 1150>>, <<1153, 1152>>, <<1163, 1162>>, <<1165, 1164>>,
      <<1167, 1166>>, <<1169, 1168>>, <<1171, 1170>>, <<1173, 1172>>, <<1175, 1174>>, <<1177, 1176>>,
      <<1179, 1178>>, <<1181, 1180>>, <<1183, 1182>>, <<1185, 1184>>, <<1187, 1186>>, <<1189, 1188>>,
      <<1191, 1190>>, <<1193, 1192>>, <<1195, 1194>>, <<1197, 1196>>, <<1199, 1198>>, <<1201, 1200>>,
      <<1203, 1202>>, <<1205, 1204>>, <<1207, 1206>>, <<1209, 1208>>, <<1211, 1210>>, <<1213, 1212>>,
      <<1215, 1214>>, <<1218, 1217>>, <<1220, 1219>>, <<1222, 1221>>, <<1224, 1223>>, <<1226, 1225>>,
      <<1228, 1227>>, <<1230, 1229>>, <<1231, 1216>>, <<1233, 1232>>, <<1235, 1234>>, <<1237, 1236>>,
      <<1239, 1238>>, <<1241, 1240>>, <<1243, 1242>>, <<1245, 1244>>, <<1247, 1246>>, <<1249, 1248>>,
      <<1251, 1250>>, <<1253, 1252>>, <<1255, 1254>>, <<1257, 1256>>, <<1259, 1258>>, <<1261, 1260>>,
      <<1263, 1262>>, <<1265, 1264>>, <<1267, 1266>>, <<1269, 1268>>, <<1271, 1270>>, <<1273, 1272>>,
      <<1275, 1274>>, <<1277, 1276>>, <<1279, 1278>>, <<1281, 1280>>, <<1283, 1282>>, <<1285, 1284>>,
      <<1287, 1286>>, <<1289, 1288>>, <<1291, 1290>>, <<1293, 1292>>, <<1295, 1294>>, <<1297, 1296>>,
      <<1299, 1298>>, <<1301, 1300>>, <<1303, 1302>>, <<1305, 1304>>, <<1307, 1306>>, <<1309, 1308>>,
      <<1311, 1310>>, <<1313, 1312>>, <<1315, 1314>>, <<1317, 1316>>, <<1319, 1318>>, <<1321, 1320>>,
      <<1323, 1322>>, <<1325, 1324>>, <<1327, 1326>>, <<1377, 1329>>, <<1378, 1330>>, <<1379, 1331>>,
      <<1380, 1332>>, <<1381, 1333>>, <<1382, 1334>>, <<1383, 1335>>, <<1384, 1336>>, <<1385, 1337>>,
      <<1386, 1338>>, <<1387, 1339>>, <<1388, 1340>>, <<1389, 1341>>, <<1390, 1342>>, <<1391, 1343>>,
      <<1392, 1344>>, <<1393, 1345>>, <<1394, 1346>>, <<1395, 1347>>, <<1396, 1348>>, <<1397, 1349>>,
      <<1398, 1350>>, <<1399, 1351>>, <<1400, 1352>>, <<1401, 1353>>, <<1402, 1354>>, <<1403, 1355>>,
      <<1404, 1356>>, <<1405, 1357>>, <<1406, 1358>>, <<1407, 1359>>, <<1408, 1360>>, <<1409, 1361>>,
      <<1410, 1362>>, <<1411, 1363>>, <<1412, 1364>>, <<1413, 1365>>, <<1414, 1366>>, <<5112, 5104>>,
      <<5113, 5105>>, <<5114, 5106>>, <<5115, 5107>>, <<5116, 5108>>, <<5117, 5109>>, <<7296, 1042>>,
      <<7297, 1044>>, <<7298, 1054>>, <<7299, 1057>>, <<7300, 1058>>, <<7301, 1058>>, <<7302, 1066>>,
      <<7303, 1122>>, <<7312, 4304>>, <<7313, 4305>>, <<7314, 4306>>, <<7315, 4307>>, <<7316, 4308>>,
      <<7317, 4309>>, <<7318, 4310>>, <<7319, 4311>>, <<7320, 4312>>, <<7321, 4313>>, <<7322, 4314>>,
      <<7323, 4315>>, <<7324, 4316>>, <<7325, 4317>>, <<7326, 4318>>, <<7327, 4319>>, <<7328, 4320>>,
      <<7329, 4321>>, <<7330, 4322>>, <<7331, 4323>>, <<7332, 4324>>, <<7333, 4325>>, <<7334, 4326>>,
      <<7335, 4327>>, <<7336, 4328>>, <<7337, 4329>>, <<7338, 4330>>, <<7339, 4331>>, <<7340, 4332>>,
      <<7341, 4333>>, <<7342, 4334>>, <<7343, 4335>>, <<7344, 4336>>, <<7345, 4337>>, <<7346, 4338>>,
      <<7347, 4339>>, <<7348, 4340>>, <<7349, 4341>>, <<7350, 4342>>, <<7351, 4343>>, <<7352, 4344>>,
      <<7353, 4345>>, <<7354, 4346>>, <<7357, 4349>>, <<7358, 4350>>, <<7359, 4351>>, <<7681, 7680>>,
      <<7683, 7682>>, <<7685, 7684>>, <<7687, 7686>>, <<7689, 7688>>, <<7691, 7690>>, <<7693, 7692>>,
      <<7695, 7694>>, <<7697, 7696>>, <<7699, 7698>>, <<7701, 7700>>, <<7703, 7702>>, <<7705, 7704>>,
      <<7707, 7706>>, <<7709, 7708>>, <<7711, 7710>>, <<7713, 7712>>, <<7715, 7714>>, <<7717, 7716>>,
      <<7719, 7718>>, <<7721, 7720>>, <<7723, 7722>>, <<7725, 7724>>, <<7727, 7726>>, <<7729, 7728>>,
      <<7731, 7730>>, <<7733, 7732>>, <<7735, 7734>>, <<7737, 7736>>, <<7739, 7738>>, <<7741, 7740>>,
      <<7743, 7742>>, <<7745, 7744>>, <<7747, 7746>>, <<7749, 7748>>, <<7751, 7750>>, <<7753, 7752>>,
      <<7755, 7754>>, <<7757, 7756>>, <<7759, 7758>>, <<7761, 7760>>, <<7763, 7762>>, <<7765, 7764>>,
      <<7767, 7766>>, <<7769, 7768>>, <<7771, 7770>>, <<7773, 7772>>, <<7775, 7774>>, <<7777, 7776>>,
      <<7779, 7778>>, <<7781, 7780>>, <<7783, 7782>>, <<7785, 7784>>, <<7787, 7786>>, <<7789, 7788>>,
      <<7791, 7790>>, <<7793, 7792>>, <<7795, 7794>>, <<7797, 7796>>, <<7799, 7798>>, <<7801, 7800>>,
      <<7803, 7802>>, <<7805, 7804>>, <<7807, 7806>>, <<7809, 7808>>, <<7811, 7810>>, <<7813, 7812>>,
      <<7815, 7814>>, <<7817, 7816>>, <<7819, 7818>>, <<7821, 7820>>, <<7823, 7822>>, <<7825, 7824>>,
      <<7827, 7826>>, <<7829, 7828>>, <<7835, 7776>>, <<7838, 223>>, <<7841, 7840>>, <<7843, 7842>>,
      <<7845, 7844>>, <<7847, 7846>>, <<7849, 7848>>, <<7851, 7850>>, <<7853, 7852>>, <<7855, 7854>>,
      <<7857, 7856>>, <<7859, 7858>>, <<7861, 7860>>, <<7863, 7862>>, <<7865, 7864>>, <<7867, 7866>>,
      <<7869, 7868>>, <<7871, 7870>>, <<7873, 7872>>, <<7875, 7874>>, <<7877, 7876>>, <<7879, 7878>>,
      <<7881, 7880>>, <<7883, 7882>>, <<7885, 7884>>, <<7887, 7886>>, <<7889, 7888>>, <<7891, 7890>>,
      <<7893, 7892>>, <<7895, 7894>>, <<7897, 7896>>, <<7899, 7898>>, <<7901, 7900>>, <<7903, 7902>>,
      <<7905, 7904>>, <<7907, 7906>>, <<7909, 7908>>, <<7911, 7910>>, <<7913, 7912>>, <<7915, 7914>>,
      <<7917, 7916>>, <<7919, 7918>>, <<7921, 7920>>, <<7923, 7922>>, <<7925, 7924>>, <<7927, 7926>>,
      <<7929, 7928>>, <<7931, 7930>>, <<7933, 7932>>, <<7935, 7934>>, <<7944, 7936>>, <<7945, 7937>>,
      <<7946, 7938>>, <<7947, 7939>>, <<7948, 7940>>, <<7949, 7941>>, <<7950, 7942>>, <<7951, 7943>>,
      <<7960, 7952>>, <<7961, 7953>>, <<7962, 7954>>, <<7963, 7955>>, <<7964, 7956>>, <<7965, 7957>>,
      <<7976, 7968>>, <<7977, 7969>>, <<7978, 7970>>, <<7979, 7971>>, <<7980, 7972>>, <<7981, 7973>>,
      <<7982, 7974>>, <<7983, 7975>>, <<7992, 7984>>, <<7993, 7985>>, <<7994, 7986>>, <<7995, 7987>>,
      <<7996, 7988>>, <<7997, 7989>>, <<7998, 7990>>, <<7999, 7991>>, <<8008, 8000>>, <<8009, 8001>>,
      <<8010, 8002>>, <<8011, 8003>>, <<8012, 8004>>, <<8013, 8005>>, <<8025, 8017>>, <<8027, 8019>>,
      <<8029, 8021>>, <<8031, 8023>>, <<8040, 8032>>, <<8041, 8033>>, <<8042, 8034>>, <<8043, 8035>>,
      <<8044, 8036>>, <<8045, 8037>>, <<8046, 8038>>, <<8047, 8039>>, <<8072, 8064>>, <<8073, 8065>>,
      <<8074, 8066>>, <<8075, 8067>>, <<8076, 8068>>, <<8077, 8069>>, <<8078, 8070>>, <<8079, 8071>>,
      <<8088, 8080>>, <<8089, 8081>>, <<8090, 8082>>, <<8091, 8083>>, <<8092, 8084>>, <<8093, 8085>>,
      <<8094, 8086>>, <<8095, 8087>>, <<8104, 8096>>, <<8105, 8097>>, <<8106, 8098>>, <<8107, 8099>>,
      <<8108, 8100>>, <<8109, 8101>>, <<8110, 8102>>, <<8111, 8103>>, <<8120, 8112>>, <<8121, 8113>>,
      <<8122, 8048>>, <<8123, 8049>>, <<8124, 8115>>, <<8126, 837>>, <<8136, 8050>>, <<8137, 8051>>,
      <<8138, 8052>>, <<8139, 8053>>, <<8140, 8131>>, <<8147, 912>>, <<8152, 8144>>, <<8153, 8145>>,
      <<8154, 8054>>, <<8155, 8055>>, <<8163, 944>>, <<8168, 8160>>, <<8169, 8161>>, <<8170, 8058>>,
      <<8171, 8059>>, <<8172, 8165>>, <<8184, 8056>>, <<8185, 8057>>, <<8186, 8060>>, <<8187, 8061>>,
      <<8188, 8179>>, <<8486, 937>>, <<8490, 75>>, <<8491, 197>>, <<8526, 8498>>, <<8560, 8544>>,
      <<8561, 8545>>, <<8562, 8546>>, <<8563, 8547>>, <<8564, 8548>>, <<8565, 8549>>, <<8566, 8550>>,
      <<8567, 8551>>, <<8568, 8552>>, <<8569, 8553>>, <<8570, 8554>>, <<8571, 8555>>, <<8572, 8556>>,
      <<8573, 8557>>, <<8574, 8558>>, <<8575, 8559>>, <<8580, 8579>>, <<9424, 9398>>, <<9425, 9399>>,
      <<9426, 9400>>, <<9427, 9401>>, <<9428, 9402>>, <<9429, 9403>>, <<9430, 9404>>, <<9431, 9405>>,
      <<9432, 9406>>, <<9433, 9407>>, <<9434, 9408>>, <<9435, 9409>>, <<9436, 9410>>, <<9437, 9411>>,
      <<9438, 9412>>, <<9439, 9413>>, <<9440, 9414>>, <<9441, 9415>>, <<9442, 9416>>, <<9443, 9417>>,
      <<9444, 9418>>, <<9445, 9419>>, <<9446, 9420>>, <<9447, 9421>>, <<9448, 9422>>, <<9449, 9423>>,
      <<11312, 11264>>, <<11313, 11265>>, <<11314, 11266>>, <<11315, 11267>>, <<11316, 11268>>, <<11317, 11269>>,
      <<11318, 11270>>, <<11319, 11271>>, <<11320, 11272>>, <<11321, 11273>>, <<11322, 11274>>, <<11323, 11275>>,
      <<11324, 11276>>, <<11325, 11277>>, <<11326, 11278>>, <<11327, 11279>>, <<11328, 11280>>, <<11329, 11281>>,
      <<11330, 11282>>, <<11331, 11283>>, <<11332, 11284>>, <<11333, 11285>>, <<11334, 11286>>, <<11335, 11287>>,
      <<11336, 11288>>, <<11337, 11289>>, <<11338, 11290>>, <<11339, 11291>>, <<11340, 11292>>, <<11341, 11293>>,
      <<11342, 11294>>, <<11343, 11295>>, <<11344, 11296>>, <<11345, 11297>>, <<11346, 11298>>, <<11347, 11299>>,
      <<11348, 11300>>, <<11349, 11301>>, <<11350, 11302>>, <<11351, 11303>>, <<11352, 11304>>, <<11353, 11305>>,
      <<11354, 11306>>, <<11355, 11307>>, <<11356, 11308>>, <<11357, 11309>>, <<11358, 11310>>, <<11359, 11311>>,
      <<11361, 11360>>, <<11362, 619>>, <<11363, 7549>>, <<11364, 637>>, <<11365, 570>>, <<11366, 574>>,
      <<11368, 11367>>, <<11370, 11369>>, <<11372, 11371>>, <<11373, 593>>, <<11374, 625>>, <<11375, 592>>,
      <<11376, 594>>, <<11379, 11378>>, <<11382, 11381>>, <<11390, 575>>, <<11391, 576>>, <<11393, 11392>>,
      <<11395, 11394>>, <<11397, 11396>>, <<11399, 11398>>, <<11401, 11400>>, <<11403, 11402>>, <<11405, 11404>>,
      <<11407, 11406>>, <<11409, 11408>>, <<11411, 11410>>, <<11413, 11412>>, <<11415, 11414>>, <<11417, 11416>>,
      <<11419, 11418>>, <<11421, 11420>>, <<11423, 11422>>, <<11425, 11424>>, <<11427, 11426>>, <<11429, 11428>>,
      <<11431, 11430>>, <<11433, 11432>>, <<11435, 11434>>, <<11437, 11436>>, <<11439, 11438>>, <<11441, 11440>>,
      <<11443, 11442>>, <<11445, 11444>>, <<11447, 11446>>, <<11449, 11448>>, <<11451, 11450>>, <<11453, 11452>>,
      <<11455, 11454>>, <<11457, 11456>>, <<11459, 11458>>, <<11461, 11460>>, <<11463, 11462>>, <<11465, 11464>>,
      <<11467, 11466>>, <<11469, 11468>>, <<11471, 11470>>, <<11473, 11472>>, <<11475, 11474>>, <<11477, 11476>>,
      <<11479, 11478>>, <<11481, 11480>>, <<11483, 11482>>, <<11485, 11484>>, <<11487, 11486>>, <<11489, 11488>>,
      <<11491, 11490>>, <<11500, 11499>>, <<11502, 11501>>, <<11507, 11506>>, <<11520, 4256>>, <<11521, 4257>>,
      <<11522, 4258>>, <<11523, 4259>>, <<11524, 4260>>, <<11525, 4261>>, <<11526, 4262>>, <<11527, 4263>>,
      <<11528, 4264>>, <<11529, 4265>>, <<11530, 4266>>, <<11531, 4267>>, <<11532, 4268>>, <<11533, 4269>>,
      <<11534, 4270>>, <<11535, 4271>>, <<11536, 4272>>, <<11537, 4273>>, <<11538, 4274>>, <<11539, 4275>>,
      <<11540, 4276>>, <<11541, 4277>>, <<11542, 4278>>, <<11543, 4279>>, <<11544, 4280>>, <<11545, 4281>>,
      <<11546, 4282>>, <<11547, 4283>>, <<11548, 4284>>, <<11549, 4285>>, <<11550, 4286>>, <<11551, 4287>>,
      <<11552, 4288>>, <<11553, 4289>>, <<11554, 4290>>, <<11555, 4291>>, <<11556, 4292>>, <<11557, 4293>>,
      <<11559, 4295>>, <<11565, 4301>>, <<42561, 42560>>, <<42563, 42562>>, <<42565, 42564>>, <<42567, 42566>>,
      <<42569, 42568>>, <<42570, 7304>>, <<42571, 7304>>, <<42573, 42572>>, <<42575, 42574>>, <<42577, 42576>>,
      <<42579, 42578>>, <<42581, 42580>>, <<42583, 42582>>, <<42585, 42584>>, <<42587, 42586>>, <<42589, 42588>>,
      <<42591, 42590>>, <<42593, 42592>>, <<42595, 42594>>, <<42597, 42596>>, <<42599, 42598>>, <<42601, 42600>>,
      <<42603, 42602>>, <<42605, 42604>>, <<42625, 42624>>, <<42627, 42626>>, <<42629, 42628>>, <<42631, 42630>>,
      <<42633, 42632>>, <<42635, 42634>>, <<42637, 42636>>, <<42639, 42638>>, <<42641, 42640>>, <<42643, 42642>>,
      <<42645, 42644>>, <<42647, 42646>>, <<42649, 42648>>, <<42651, 42650>>, <<42787, 42786>>, <<42789, 42788>>,
      <<42791, 42790>>, <<42793, 42792>>, <<42795, 42794>>, <<42797, 42796>>, <<42799, 42798>>, <<42803, 42802>>,
      <<42805, 42804>>, <<42807, 42806>>, <<42809, 42808>>, <<42811, 42810>>, <<42813, 42812>>, <<42815, 42814>>,
      <<42817, 42816>>, <<42819, 42818>>, <<42821, 42820>>, <<42823, 42822>>, <<42825, 42824>>, <<42827, 42826>>,
      <<42829, 42828>>, <<42831, 42830>>, <<42833, 42832>>, <<42835, 42834>>, <<42837, 42836>>, <<42839, 42838>>,
      <<42841, 42840>>, <<42843, 42842>>, <<42845, 42844>>, <<42847, 42846>>, <<42849, 42848>>, <<42851, 42850>>,
      <<42853, 42852>>, <<42855, 42854>>, <<42857, 42856>>, <<42859, 42858>>, <<42861, 42860>>, <<42863, 42862>>,
      <<42874, 42873>>, <<42876, 42875>>, <<42877, 7545>>, <<42879, 42878>>, <<42881, 42880>>, <<42883, 42882>>,
      <<42885, 42884>>, <<42887, 42886>>, <<42892, 42891>>, <<42893, 613>>, <<42897, 42896>>, <<42899, 42898>>,
      <<42903, 42902>>, <<42905, 42904>>, <<42907, 42906>>, <<42909, 42908>>, <<42911, 42910>>, <<42913, 42912>>,
      <<42915, 42914>>, <<42917, 42916>>, <<42919, 42918>>, <<42921, 42920>>, <<42922, 614>>, <<42923, 604>>,
      <<42924, 609>>, <<42925, 620>>, <<42926, 618>>, <<42928, 670>>, <<42929, 647>>, <<42930, 669>>,
      <<42933, 42932>>, <<42935, 42934>>, <<42937, 42936>>, <<42939, 42938>>, <<42941, 42940>>, <<42943, 42942>>,
      <<42945, 42944>>, <<42947, 42946>>, <<42948, 42900>>, <<42949, 642>>, <<42950, 7566>>, <<42952, 42951>>,
      <<42954, 42953>>, <<42961, 42960>>, <<42967, 42966>>, <<42969, 42968>>, <<42998, 42997>>, <<43859, 42931>>,
      <<43888, 5024>>, <<43889, 5025>>, <<43890, 5026>>, <<43891, 5027>>, <<43892, 5028>>, <<43893, 5029>>,
      <<43894, 5030>>, <<43895, 5031>>, <<43896, 5032>>, <<43897, 5033>>, <<43898, 5034>>, <<43899, 5035>>,
      <<43900, 5036>>, <<43901, 5037>>, <<43902, 5038>>, <<43903, 5039>>, <<43904, 5040>>, <<43905, 5041>>,
      <<43906, 5042>>, <<43907, 5043>>, <<43908, 5044>>, <<43909, 5045>>, <<43910, 5046>>, <<43911, 5047>>,
      <<43912, 5048>>, <<43913, 5049>>, <<43914, 5050>>, <<43915, 5051>>, <<43916, 5052>>, <<43917, 5053>>,
      <<43918, 5054>>, <<43919, 5055>>, <<43920, 5056>>, <<43921, 5057>>, <<43922, 5058>>, <<43923, 5059>>,
      <<43924, 5060>>, <<43925, 5061>>, <<43926, 5062>>, <<43927, 5063>>, <<43928, 5064>>, <<43929, 5065>>,
      <<43930, 5066>>, <<43931, 5067>>, <<43932, 5068>>, <<43933, 5069>>, <<43934, 5070>>, <<43935, 5071>>,
      <<43936, 5072>>, <<43937, 5073>>, <<43938, 5074>>, <<43939, 5075>>, <<43940, 5076>>, <<43941, 5077>>,
      <<43942, 5078>>, <<43943, 5079>>, <<43944, 5080>>, <<43945, 5081>>, <<43946, 5082>>, <<43947, 5083>>,
      <<43948, 5084>>, <<43949, 5085>>, <<43950, 5086>>, <<43951, 5087>>, <<43952, 5088>>, <<43953, 5089>>,
      <<43954, 5090>>, <<43955, 5091>>, <<43956, 5092>>, <<43957, 5093>>, <<43958, 5094>>, <<43959, 5095>>,
      <<43960, 5096>>, <<43961, 5097>>, <<43962, 5098>>, <<43963, 5099>>, <<43964, 5100>>, <<43965, 5101>>,
      <<43966, 5102>>, <<43967, 5103>>, <<64262, 64261>>, <<65345, 65313>>, <<65346, 65314>>, <<65347, 65315>>,
      <<65348, 65316>>, <<65349, 65317>>, <<65350, 65318>>, <<65351, 65319>>, <<65352, 65320>>, <<65353, 65321>>,
      <<65354, 65322>>, <<65355, 65323>>, <<65356, 65324>>, <<65357, 65325>>, <<65358, 65326>>, <<65359, 65327>>,
      <<65360, 65328>>, <<65361, 65329>>, <<65362, 65330>>, <<65363, 65331>>, <<65364, 65332>>, <<65365, 65333>>,
      <<65366, 65334>>, <<65367, 65335>>, <<65368, 65336>>, <<65369, 65337>>, <<65370, 65338>>, <<66600, 66560>>,
      <<66601, 66561>>, <<66602, 66562>>, <<66603, 66563>>, <<66604, 66564>>, <<66605, 66565>>, <<66606, 66566>>,
      <<66607, 66567>>, <<66608, 66568>>, <<66609, 66569>>, <<66610, 66570>>, <<66611, 66571>>, <<66612, 66572>>,
      <<66613, 66573>>, <<66614, 66574>>, <<66615, 66575>>, <<66616, 66576>>, <<66617, 66577>>, <<66618, 66578>>,
      <<66619, 66579>>, <<66620, 66580>>, <<66621, 66581>>, <<66622, 66582>>, <<66623, 66583>>, <<66624, 66584>>,
      <<66625, 66585>>, <<66626, 66586>>, <<66627, 66587>>, <<66628, 66588>>, <<66629, 66589>>, <<66630, 66590>>,
      <<66631, 66591>>, <<66632, 66592>>, <<66633, 66593>>, <<66634, 66594>>, <<66635, 66595>>, <<66636, 66596>>,
      <<66637, 66597>>, <<66638, 66598>>, <<66639, 66599>>, <<66776, 66736>>, <<66777, 66737>>, <<66778, 66738>>,
      <<66779, 66739>>, <<66780, 66740>>, <<66781, 66741>>, <<66782, 66742>>, <<66783, 66743>>, <<66784, 66744>>,
      <<66785, 66745>>, <<66786, 66746>>, <<66787, 66747>>, <<66788, 66748>>, <<66789, 66749>>, <<66790, 66750>>,
      <<66791, 66751>>, <<66792, 66752>>, <<66793, 66753>>, <<66794, 66754>>, <<66795, 66755>>, <<66796, 66756>>,
      <<66797, 66757>>, <<66798, 66758>>, <<66799, 66759>>, <<66800, 66760>>, <<66801, 66761>>, <<66802, 66762>>,
      <<66803, 66763>>, <<66804, 66764>>, <<66805, 66765>>, <<66806, 66766>>, <<66807, 66767>>, <<66808, 66768>>,
      <<66809, 66769>>, <<66810, 66770>>, <<66811, 66771>>, <<66967, 66928>>, <<66968, 66929>>, <<66969, 66930>>,
      <<66970, 66931>>, <<66971, 66932>>, <<66972, 66933>>, <<66973, 66934>>, <<66974, 66935>>, <<66975, 66936>>,
      <<66976, 66937>>, <<66977, 66938>>, <<66979, 66940>>, <<66980, 66941>>, <<66981, 66942>>, <<66982, 66943>>,
      <<66983, 66944>>, <<66984, 66945>>, <<66985, 66946>>, <<66986, 66947>>, <<66987, 66948>>, <<66988, 66949>>,
      <<66989, 66950>>, <<66990, 66951>>, <<66991, 66952>>, <<66992, 66953>>, <<66993, 66954>>, <<66995, 66956>>,
      <<66996, 66957>>, <<66997, 66958>>, <<66998, 66959>>, <<66999, 66960>>, <<67000, 66961>>, <<67001, 66962>>,
      <<67003, 66964>>, <<67004, 66965>>, <<68800, 68736>>, <<68801, 68737>>, <<68802, 68738>>, <<68803, 68739>>,
      <<68804, 68740>>, <<68805, 68741>>, <<68806, 68742>>, <<68807, 68743>>, <<68808, 68744>>, <<68809, 68745>>,
      <<68810, 68746>>, <<68811, 68747>>, <<68812, 68748>>, <<68813, 68749>>, <<68814, 68750>>, <<68815, 68751>>,
      <<68816, 68752>>, <<68817, 68753>>, <<68818, 68754>>, <<68819, 68755>>, <<68820, 68756>>, <<68821, 68757>>,
      <<68822, 68758>>, <<68823, 68759>>, <<68824, 68760>>, <<68825, 68761>>, <<68826, 68762>>, <<68827, 68763>>,
      <<68828, 68764>>, <<68829, 68765>>, <<68830, 68766>>, <<68831, 68767>>, <<68832, 68768>>, <<68833, 68769>>,
      <<68834, 68770>>, <<68835, 68771>>, <<68836, 68772>>, <<68837, 68773>>, <<68838, 68774>>, <<68839, 68775>>,
      <<68840, 68776>>, <<68841, 68777>>, <<68842, 68778>>, <<68843, 68779>>, <<68844, 68780>>, <<68845, 68781>>,
      <<68846, 68782>>, <<68847, 68783>>, <<68848, 68784>>, <<68849, 68785>>, <<68850, 68786>>, <<71872, 71840>>,
      <<71873, 71841>>, <<71874, 71842>>, <<71875, 71843>>, <<71876, 71844>>, <<71877, 71845>>, <<71878, 71846>>,
      <<71879, 71847>>, <<71880, 71848>>, <<71881, 71849>>, <<71882, 71850>>, <<71883, 71851>>, <<71884, 71852>>,
      <<71885, 71853>>, <<71886, 71854>>, <<71887, 71855>>, <<71888, 71856>>, <<71889, 71857>>, <<71890, 71858>>,
      <<71891, 71859>>, <<71892, 71860>>, <<71893, 71861>>, <<71894, 71862>>, <<71895, 71863>>, <<71896, 71864>>,
      <<71897, 71865>>, <<71898, 71866>>, <<71899, 71867>>, <<71900, 71868>>, <<71901, 71869>>, <<71902, 71870>>,
      <<71903, 71871>>, <<93792, 93760>>, <<93793, 93761>>, <<93794, 93762>>, <<93795, 93763>>, <<93796, 93764>>,
      <<93797, 93765>>, <<93798, 93766>>, <<93799, 93767>>, <<93800, 93768>>, <<93801, 93769>>, <<93802, 93770>>,
      <<93803, 93771>>, <<93804, 93772>>, <<93805, 93773>>, <<93806, 93774>>, <<93807, 93775>>, <<93808, 93776>>,
      <<93809, 93777>>, <<93810, 93778>>, <<93811, 93779>>, <<93812, 93780>>, <<93813, 93781>>, <<93814, 93782>>,
      <<93815, 93783>>, <<93816, 93784>>, <<93817, 93785>>, <<93818, 93786>>, <<93819, 93787>>, <<93820, 93788>>,
      <<93821, 93789>>, <<93822, 93790>>, <<93823, 93791>>, <<125218, 125184>>, <<125219, 125185>>, <<125220, 125186>>,
      <<125221, 125187>>, <<125222, 125188>>, <<125223, 125189>>, <<125224, 125190>>, <<125225, 125191>>, <<125226, 125192>>,
      <<125227, 125193>>, <<125228, 125194>>, <<125229, 125195>>, <<125230, 125196>>, <<125231, 125197>>, <<125232, 125198>>,
      <<125233, 125199>>, <<125234, 125200>>, <<125235, 125201>>, <<125236, 125202>>, <<125237, 125203>>, <<125238, 125204>>,
      <<125239, 125205>>, <<125240, 125206>>, <<125241, 125207>>, <<125242, 125208>>, <<125243, 125209>>, <<125244, 125210>>,
      <<125245, 125211>>, <<125246, 125212>>, <<125247, 125213>>, <<125248, 125214>>, <<125249, 125215>>, <<125250, 125216>>,
      <<125251, 125217>> }

AsciiSpace ==
    { c \in 0..127 : InRanges(c, SpaceRanges) }

AsciiWord ==
    { c \in 0..127 : InRanges(c, WordRanges) }

\* \s
IsSpace(c) ==
    IF c < 128 THEN c \in AsciiSpace ELSE InRanges(c, SpaceRanges)

\* \d
IsDigit(c) ==
    \E z \in DigitZeros : z <= c /\ c <= z + 9

\* \w : alphanumeric characters and the underscore
IsWord(c) ==
    IF c < 128 THEN c \in AsciiWord ELSE InRanges(c, WordRanges)

\* [\w-]
IsTokenChar(c) ==
    IsWord(c) \/ c = Hyphen

\* FoldPairs as a function
FoldMap ==
    [c \in { e[1] : e \in FoldPairs } |-> (CHOOSE e \in FoldPairs : e[1] = c)[2]]

\* the representative of the characters that match c under re.IGNORECASE
fold(c) ==
    IF c \in DOMAIN FoldMap THEN FoldMap[c] ELSE c

\* the value of a decimal digit
digit_value(c) ==
    c - (CHOOSE z \in DigitZeros : z <= c /\ c <= z + 9)

\* the number a string of decimal digits denotes
RECURSIVE int_value(_)
int_value(s) ==
    IF s = <<>> THEN 0
    ELSE int_value(SubSeq(s, 1, Len(s) - 1)) * 10 + digit_value(s[Len(s)])

\* sys.int_info.default_max_str_digits: the longest string int() converts
MaxStrDigits == 4300

\* int() of a string of decimal digits: the number, or ValueError when the
\* string (leading zeros included) is longer than the conversion limit
int(s) ==
    IF Len(s) > MaxStrDigits THEN [exc |-> "ValueError", val |-> 0]
    ELSE [exc |-> "none", val |-> int_value(s)]

\* f"{num}" for a non-negative integer: plain ASCII decimal, no padding
RECURSIVE format_int(_)
format_int(n) ==
    IF n < 10 THEN <<Zero + n>>
    ELSE format_int(n \div 10) \o <<Zero + (n % 10)>>

\* str.split(sep) for a one-character separator: always at least one piece
RECURSIVE split(_, _)
split(s, sep) ==
    IF \A i \in DOMAIN s : s[i] # sep THEN <<s>>
    ELSE LET i == CHOOSE k \in DOMAIN s :
                      s[k] = sep /\ \A j \in 1..(k - 1) : s[j] # sep
         IN  <<SubSeq(s, 1, i - 1)>> \o split(SubSeq(s, i + 1, Len(s)), sep)

\* \d+ ending at the end of s: the maximal trailing run of digits
RECURSIVE trailing_digits(_)
trailing_digits(s) ==
    IF s = <<>> \/ ~IsDigit(s[Len(s)]) THEN <<>>
    ELSE trailing_digits(SubSeq(s, 1, Len(s) - 1)) \o <<s[Len(s)]>>

\* re.search(r'\d+$', s).group(0), <<>> standing for a search that returns
\* None (the pattern never matches the empty string): $ matches at the end
\* of s and before a newline that ends s
search_trailing_digits(s) ==
    IF s # <<>> /\ s[Len(s)] = Newline
    THEN trailing_digits(SubSeq(s, 1, Len(s) - 1))
    ELSE trailing_digits(s)

(***************************************************************************)
(* sanitize_filename                                                       *)
(***************************************************************************)
\* re.sub(r'[^A-Za-z0-9\s-]', '', filename): the class without the underscore
strip_special_and_underscore(s) ==
    SelectSeq(s, LAMBDA c : (IsWord(c) /\ c # Underscore) \/ IsSpace(c) \/ c = Hyphen)

\* re.sub(r'[^\w\s-]', '', filename)
strip_special(s) ==
    SelectSeq(s, LAMBDA c : IsWord(c) \/ IsSpace(c) \/ c = Hyphen)

\* re.sub(r'\s+', '_', filename): scans left to right, every maximal run of
\* whitespace becomes one underscore
RECURSIVE collapse_whitespace(_)
collapse_whitespace(s) ==
    IF s = <<>> THEN <<>>
    ELSE IF IsSpace(Head(s))
         THEN LET run == CHOOSE k \in 1..Len(s) :
                             /\ \A j \in 1..k : IsSpace(s[j])
                             /\ (k = Len(s) \/ ~IsSpace(s[k + 1]))
              IN  <<Underscore>> \o collapse_whitespace(SubSeq(s, run + 1, Len(s)))
         ELSE <<Head(s)>> \o collapse_whitespace(Tail(s))

sanitize_filename(name) ==
    collapse_whitespace(strip_special(name))

(***************************************************************************)
(* parse_accession_ids                                                     *)
(***************************************************************************)
\* \s* from index i on, greedy: the first index whose character is not
\* whitespace (Len(s) + 1 if there is none)
RECURSIVE skip_spaces(_, _)
skip_spaces(s, i) ==
    IF i <= Len(s) /\ IsSpace(s[i]) THEN skip_spaces(s, i + 1) ELSE i

\* [\w-]* from index i on, greedy
RECURSIVE skip_token_chars(_, _)
skip_token_chars(s, i) ==
    IF i <= Len(s) /\ IsTokenChar(s[i]) THEN skip_token_chars(s, i + 1) ELSE i

\* (?:,[\w-]+)* from index k on, greedy: the index after the last repetition
RECURSIVE skip_comma_runs(_, _)
skip_comma_runs(s, k) ==
    IF k + 1 <= Len(s) /\ s[k] = Comma /\ IsTokenChar(s[k + 1])
    THEN skip_comma_runs(s, skip_token_chars(s, k + 1))
    ELSE k

\* the characters of [LSM]
SegmentLetters ==
    Range(S(<<"L", "S", "M">>))

\* one attempt of \b([LSM]):\s*([\w-]+(?:,[\w-]+)*) at index i.  \b holds
\* before a word character iff no word character precedes it.  \s* and
\* [\w-]+ share no character, so the greedy match is the only one.
MatchAt(s, i) ==
    LET j == skip_spaces(s, i + 2)
        k == skip_token_chars(s, j)
        e == skip_comma_runs(s, k)
    IN  IF /\ i + 1 <= Len(s)
           /\ (i = 1 \/ ~IsWord(s[i - 1]))
           /\ s[i] \in SegmentLetters
           /\ s[i + 1] = Colon
           /\ k > j
        THEN [ok |-> TRUE, key |-> <<s[i]>>, group |-> SubSeq(s, j, e - 1), end |-> e]
        ELSE [ok |-> FALSE, key |-> <<>>, group |-> <<>>, end |-> i + 1]

\* re.findall from index pos on: non-overlapping matches, left to right
RECURSIVE findall(_, _)
findall(s, pos) ==
    IF pos > Len(s) THEN <<>>
    ELSE LET m == MatchAt(s, pos)
         IN  IF m.ok
             THEN <<[key |-> m.key, group |-> m.group]>> \o findall(s, m.end)
             ELSE findall(s, pos + 1)

\* [f"{start_prefix}{num}" for num in range(lo, hi + 1)]
RECURSIVE expand_range(_, _, _)
expand_range(prefix, lo, hi) ==
    IF lo > hi THEN <<>>
    ELSE <<prefix \o format_int(lo)>> \o expand_range(prefix, lo + 1, hi)

\* One pass of the body of `for part in group.split(',')` (lines 50-58):
\* the identifiers appended, or the exception the pass raises.
expand_part(part) ==
    IF \E i \in DOMAIN part : part[i] = Hyphen
    THEN LET pieces == split(part, Hyphen)
         IN  IF Len(pieces) # 2
             THEN [exc |-> "ValueError", ids |-> <<>>]
             ELSE LET start == pieces[1]
                      end == pieces[2]
                      start_num == search_trailing_digits(start)
                      end_num == search_trailing_digits(end)
                      start_prefix == SubSeq(start, 1, Len(start) - Len(start_num))
                  IN  IF start_num = <<>> \/ end_num = <<>>
                      THEN [exc |-> "AttributeError", ids |-> <<>>]
                      ELSE IF int(start_num).exc # "none" \/ int(end_num).exc # "none"
                      THEN [exc |-> "ValueError", ids |-> <<>>]
                      ELSE [exc |-> "none",
                            ids |-> expand_range(start_prefix, int(start_num).val,
                                                 int(end_num).val)]
    ELSE [exc |-> "none", ids |-> <<part>>]

\* The inner loop (lines 48-58) over the parts of one group: ids so far,
\* stopping at the first part that raises.
RECURSIVE expand_parts(_, _)
expand_parts(parts, ids) ==
    IF parts = <<>> THEN [exc |-> "none", ids |-> ids]
    ELSE LET r == expand_part(Head(parts))
         IN  IF r.exc # "none" THEN [exc |-> r.exc, ids |-> <<>>]
             ELSE expand_parts(Tail(parts), ids \o r.ids)

\* acc_dict[key] = ids on a dict kept in insertion order: an existing key
\* keeps its place and takes the new value
dict_set(d, key, ids) ==
    IF \E i \in DOMAIN d : d[i].key = key
    THEN [i \in DOMAIN d |-> IF d[i].key = key THEN [key |-> key, ids |-> ids] ELSE d[i]]
    ELSE Append(d, [key |-> key, ids |-> ids])

\* The outer loop (lines 45-59) over the (key, group) pairs
RECURSIVE parse_pairs(_, _, _)
parse_pairs(id_pairs, seg, d) ==
    IF id_pairs = <<>> THEN [exc |-> "none", dict |-> d]
    ELSE LET key == Head(id_pairs).key
             group == Head(id_pairs).group
         IN  IF seg # All /\ key # seg
             THEN parse_pairs(Tail(id_pairs), seg, d)
             ELSE LET r == expand_parts(split(group, Comma), <<>>)
                  IN  IF r.exc # "none" THEN [exc |-> r.exc, dict |-> <<>>]
                      ELSE parse_pairs(Tail(id_pairs), seg, dict_set(d, key, r.ids))

\* parse_accession_ids(accession_str, segment): the dict returned (a
\* sequence of [key, ids] in insertion order), or the exception raised
parse_accession_ids(s, seg) ==
    parse_pairs(findall(s, 1), seg, <<>>)

(***************************************************************************)
(* Series.str.contains: the pattern is a regular expression (regex=True is *)
(* the default) that re.compile translates and Pattern.search applies.     *)
(* The constructs modelled are literals, escaped punctuation, the classes  *)
(* \d \w \s \D \W \S, '.', '^', '$', '|', groups and the repeats * + ?     *)
(* with their lazy forms; a pattern using anything else is "unsupported"   *)
(* and no run is modelled for it.                                          *)
(***************************************************************************)
Backslash == ord("\\")
Caret == ord("^")
Dollar == ord("$")
Bar == ord("|")
LParen == ord("(")
RParen == ord(")")
Star == ord("*")
Plus == ord("+")
Question == ord("?")
LBracket == ord("[")
LBrace == ord("{")
Lower_d == ord("d")
Upper_D == ord("D")
Lower_w == ord("w")
Upper_W == ord("W")
Lower_s == ord("s")

\* the letters of \d \D \w \W \s \S
ClassLetters ==
    Range(S(<<"d", "D", "w", "W", "s", "S">>))

Tok(t, c) ==
    [t |-> t, c |-> c]

\* the token of a character that stands for itself or is an operator
plain_token(c) ==
    IF c = Dot THEN Tok("dot", c)
    ELSE IF c = Caret THEN Tok("bol", c)
    ELSE IF c = Dollar THEN Tok("eol", c)
    ELSE IF c = Bar THEN Tok("bar", c)
    ELSE IF c = RParen THEN Tok("close", c)
    ELSE IF c = Star THEN Tok("star", c)
    ELSE IF c = Plus THEN Tok("plus", c)
    ELSE IF c = Question THEN Tok("opt", c)
    ELSE IF c = LBracket \/ c = LBrace THEN Tok("unsupported", c)
    ELSE Tok("lit", c)

\* the tokens of pattern p from index i on: an escape is a class, a literal
\* (any character but an ASCII letter or digit) or, at the end of the
\* pattern, an error; "(?:" opens a group as "(" does
RECURSIVE tokenize(_, _)
tokenize(p, i) ==
    IF i > Len(p) THEN <<>>
    ELSE IF p[i] = Backslash
    THEN IF i = Len(p) THEN <<Tok("bad", p[i])>>
         ELSE (IF p[i + 1] \in ClassLetters THEN <<Tok("class", p[i + 1])>>
               ELSE IF p[i + 1] < 128 /\ IsWord(p[i + 1]) /\ p[i + 1] # Underscore
                    THEN <<Tok("unsupported", p[i + 1])>>
                    ELSE <<Tok("lit", p[i + 1])>>)
              \o tokenize(p, i + 2)
    ELSE IF p[i] = LParen
    THEN IF i + 1 <= Len(p) /\ p[i + 1] = Question
         THEN IF i + 2 <= Len(p) /\ p[i + 2] = Colon
              THEN <<Tok("open", p[i])>> \o tokenize(p, i + 3)
              ELSE <<Tok("unsupported", p[i])>>
         ELSE <<Tok("open", p[i])>> \o tokenize(p, i + 1)
    ELSE <<plain_token(p[i])>> \o tokenize(p, i + 1)

RepeatOps ==
    {"star", "plus", "opt"}

Leaf(op, c) ==
    [op |-> op, c |-> c, kids |-> <<>>]

Node(op, kids) ==
    [op |-> op, c |-> 0, kids |-> kids]

\* the alternation of the branches read so far in a group (or at the top
\* level) and the items of the branch being read
Frame(alts, items) ==
    [alts |-> alts, items |-> items]

\* the pattern a frame stands for once its last branch is complete
frame_node(f) ==
    Node("alt", Append(f.alts, Node("cat", f.items)))

ParseError ==
    [st |-> "error", node |-> Leaf("none", 0)]

\* sre_parse._parse_sub and _parse from token i on; stack holds the frame of
\* every group that is open, the innermost last.  A repeat needs an item
\* before it that is neither an anchor nor a repeat ("nothing to repeat",
\* "multiple repeat"); a '?' right after a repeat makes it lazy, which does
\* not change whether the pattern is found.  A ')' needs an open group
\* ("unbalanced parenthesis") and the end of the pattern none ("missing )").
RECURSIVE parse(_, _, _)
parse(toks, i, stack) ==
    IF i > Len(toks)
    THEN IF Len(stack) > 1 THEN ParseError
         ELSE [st |-> "ok", node |-> frame_node(stack[1])]
    ELSE IF toks[i].t = "bad" THEN ParseError
    ELSE IF toks[i].t \in RepeatOps
    THEN IF \/ stack[Len(stack)].items = <<>>
            \/ stack[Len(stack)].items[Len(stack[Len(stack)].items)].op
                  \in RepeatOps \cup {"bol", "eol"}
         THEN ParseError
         ELSE parse(toks,
                    IF i + 1 <= Len(toks) /\ toks[i + 1].t = "opt" THEN i + 2 ELSE i + 1,
                    [stack EXCEPT ![Len(stack)].items[Len(stack[Len(stack)].items)] =
                        Node(toks[i].t, <<@>>)])
    ELSE IF toks[i].t = "open"
    THEN parse(toks, i + 1, Append(stack, Frame(<<>>, <<>>)))
    ELSE IF toks[i].t = "bar"
    THEN parse(toks, i + 1,
               [stack EXCEPT ![Len(stack)] =
                   Frame(Append(@.alts, Node("cat", @.items)), <<>>)])
    ELSE IF toks[i].t = "close"
    THEN IF Len(stack) = 1 THEN ParseError
         ELSE parse(toks, i + 1,
                    [SubSeq(stack, 1, Len(stack) - 1) EXCEPT ![Len(stack) - 1].items =
                        Append(@, Node("group", <<frame_node(stack[Len(stack)])>>))])
    ELSE parse(toks, i + 1,
               [stack EXCEPT ![Len(stack)].items = Append(@, Leaf(toks[i].t, toks[i].c))])

\* re.compile of a tokenized pattern: "ok" with the parsed pattern, "error"
\* when re.error is raised, "unsupported" when the pattern uses a construct
\* that is not modelled (a possessive repeat is a repeat followed by '+')
compile_tokens(toks) ==
    IF \/ \E i \in DOMAIN toks : toks[i].t = "unsupported"
       \/ \E i \in 1..(Len(toks) - 1) : toks[i].t \in RepeatOps /\ toks[i + 1].t = "plus"
    THEN [st |-> "unsupported", node |-> Leaf("none", 0)]
    ELSE parse(toks, 1, <<Frame(<<>>, <<>>)>>)

\* re.compile(pat)
re_compile(pat) ==
    compile_tokens(tokenize(pat, 1))

\* a literal of the pattern against a character of the text
char_eq(a, b, icase) ==
    IF icase THEN fold(a) = fold(b) ELSE a = b

\* \d \w \s and their complements
class_has(letter, c) ==
    IF letter = Lower_d THEN IsDigit(c)
    ELSE IF letter = Upper_D THEN ~IsDigit(c)
    ELSE IF letter = Lower_w THEN IsWord(c)
    ELSE IF letter = Upper_W THEN ~IsWord(c)
    ELSE IF letter = Lower_s THEN IsSpace(c)
    ELSE ~IsSpace(c)

\* the positions at which a match of node n that starts at position i of s
\* can end
RECURSIVE ends(_, _, _, _), ends_cat(_, _, _, _, _), ends_repeat(_, _, _, _, _)
ends(n, s, i, icase) ==
    IF n.op = "lit"
    THEN IF i <= Len(s) /\ char_eq(n.c, s[i], icase) THEN {i + 1} ELSE {}
    ELSE IF n.op = "dot"
    THEN IF i <= Len(s) /\ s[i] # Newline THEN {i + 1} ELSE {}
    ELSE IF n.op = "class"
    THEN IF i <= Len(s) /\ class_has(n.c, s[i]) THEN {i + 1} ELSE {}
    ELSE IF n.op = "bol"
    THEN IF i = 1 THEN {i} ELSE {}
    ELSE IF n.op = "eol"
    THEN IF i = Len(s) + 1 \/ (i = Len(s) /\ s[i] = Newline) THEN {i} ELSE {}
    ELSE IF n.op = "group" THEN ends(n.kids[1], s, i, icase)
    ELSE IF n.op = "cat" THEN ends_cat(n.kids, 1, s, {i}, icase)
    ELSE IF n.op = "alt" THEN UNION { ends(n.kids[k], s, i, icase) : k \in DOMAIN n.kids }
    ELSE IF n.op = "opt" THEN {i} \cup ends(n.kids[1], s, i, icase)
    ELSE IF n.op = "star" THEN ends_repeat(n.kids[1], s, {i}, {i}, icase)
    ELSE ends_repeat(n.kids[1], s, ends(n.kids[1], s, i, icase),
                     ends(n.kids[1], s, i, icase), icase)

\* the items of a sequence from the k-th on, started at any position of I
ends_cat(kids, k, s, I, icase) ==
    IF k > Len(kids) \/ I = {} THEN I
    ELSE ends_cat(kids, k + 1, s, UNION { ends(kids[k], s, i, icase) : i \in I }, icase)

\* further repetitions of n from the positions reached last
ends_repeat(n, s, seen, frontier, icase) ==
    IF frontier = {} THEN seen
    ELSE ends_repeat(n, s,
                     seen \cup UNION { ends(n, s, i, icase) : i \in frontier },
                     (UNION { ends(n, s, i, icase) : i \in frontier }) \ seen, icase)

\* Pattern.search(s) is not None
re_search(node, s, icase) ==
    \E i \in 1..(Len(s) + 1) : ends(node, s, i, icase) # {}

(***************************************************************************)
(* extract_data_from_excel                                                 *)
(***************************************************************************)
\* a missing spreadsheet cell (pandas NaN); no str is this value
NaN ==
    <<-1>>

\* the columns of the sheet that the script reads ('Virus name(s)' and
\* 'Virus GENBANK accession' are VirusNames and Accession here)
Columns ==
    {"Species", "VirusNames", "Accession", "Family", "Genus"}

\* pd.read_excel: the rows, the columns the sheet has (every row is a record
\* over them; a sheet without rows is taken to have them all) and the dtype
\* of each: a column of a sheet with rows whose cells are all missing is
\* numeric.  Cells are text or missing.
read_excel(rows) ==
    [rows |-> rows,
     columns |-> IF rows = <<>> THEN Columns ELSE DOMAIN rows[1],
     dtype |-> [col \in (IF rows = <<>> THEN Columns ELSE DOMAIN rows[1]) |->
                   IF rows # <<>> /\ \A i \in DOMAIN rows : rows[i][col] = NaN
                   THEN "float64" ELSE "object"]]

\* the mask of a compiled pattern over a column of text: for each row
\* whether the pattern is found in the cell, and the rows whose cell is
\* missing; a pattern that did not compile raises re.error
mask_of(rows, col, re, icase) ==
    IF re.st # "ok"
    THEN [exc |-> "re.error", found |-> [i \in DOMAIN rows |-> FALSE], missing |-> {}]
    ELSE [exc |-> "none",
          found |-> [i \in DOMAIN rows |->
                        rows[i][col] # NaN /\ re_search(re.node, rows[i][col], icase)],
          missing |-> { i \in DOMAIN rows : rows[i][col] = NaN }]

\* frame[col].str.contains(pat, case=..., [na=False]): a column the sheet
\* lacks raises KeyError, the .str accessor of a numeric column raises
\* AttributeError, both before the pattern is compiled
contains(frame, col, pat, icase) ==
    IF col \notin frame.columns
    THEN [exc |-> "KeyError", found |-> [i \in DOMAIN frame.rows |-> FALSE], missing |-> {}]
    ELSE IF frame.dtype[col] # "object"
    THEN [exc |-> "AttributeError", found |-> [i \in DOMAIN frame.rows |-> FALSE],
          missing |-> {}]
    ELSE mask_of(frame.rows, col, re_compile(pat), icase)

\* frame[mask]: with na=False a missing cell counts as not found; without
\* it the mask holds NaN for a missing cell and indexing raises ValueError
select(frame, mask, na_false) ==
    IF mask.exc # "none" THEN [exc |-> mask.exc, frame |-> frame]
    ELSE IF ~na_false /\ mask.missing # {} THEN [exc |-> "ValueError", frame |-> frame]
    ELSE [exc |-> "none",
          frame |-> [frame EXCEPT !.rows =
                        LET keep == { i \in DOMAIN frame.rows : mask.found[i] }
                        IN  [n \in 1..Cardinality(keep) |->
                               frame.rows[CHOOSE i \in keep :
                                             Cardinality({j \in keep : j <= i}) = n]]]]

\* one `if option: df = df[df[col].str.contains(...)]` of lines 31-38
filter_step(frame, step) ==
    IF ~step.given THEN [exc |-> "none", frame |-> frame]
    ELSE select(frame, contains(frame, step.col, step.pat, step.icase), step.na_false)

\* the statements of lines 31-38 in order, up to the first that raises
RECURSIVE apply_filters(_, _)
apply_filters(prev, steps) ==
    IF steps = <<>> \/ prev.exc # "none" THEN prev
    ELSE apply_filters(filter_step(prev.frame, Head(steps)), Tail(steps))

\* DataFrame.dropna() on the three columns kept
dropna(rows) ==
    SelectSeq(rows, LAMBDA r : r.Species # NaN /\ r.VirusNames # NaN /\ r.Accession # NaN)

\* extract_data_from_excel(excel_path, segment, family, genus, species) on
\* a sheet holding `rows`: the frame returned or the exception raised; an
\* option that is None or empty (<<>>) filters nothing, and line 39 raises
\* KeyError when one of the three columns it selects is not in the sheet
extract_data_from_excel(rows, seg, family, genus, species) ==
    LET r == apply_filters(
                [exc |-> "none", frame |-> read_excel(rows)],
                << [given |-> seg # All, col |-> "Accession", pat |-> seg \o <<Colon>>,
                    icase |-> FALSE, na_false |-> FALSE],
                   [given |-> family # <<>>, col |-> "Family", pat |-> family,
                    icase |-> TRUE, na_false |-> TRUE],
                   [given |-> genus # <<>>, col |-> "Genus", pat |-> genus,
                    icase |-> TRUE, na_false |-> TRUE],
                   [given |-> species # <<>>, col |-> "Species", pat |-> species,
                    icase |-> TRUE, na_false |-> TRUE] >>)
    IN  IF r.exc # "none" THEN [exc |-> r.exc, df |-> <<>>]
        ELSE IF ~({"Species", "VirusNames", "Accession"} \subseteq r.frame.columns)
        THEN [exc |-> "KeyError", df |-> <<>>]
        ELSE [exc |-> "none",
              df |-> dropna([i \in DOMAIN r.frame.rows |->
                               [Species |-> r.frame.rows[i].Species,
                                VirusNames |-> r.frame.rows[i].VirusNames,
                                Accession |-> r.frame.rows[i].Accession]])]

\* whether the run is modelled: every option given is a pattern the model
\* of re.compile covers
Modelled(family, genus, species) ==
    \A pat \in {family, genus, species} : re_compile(pat).st # "unsupported"

(***************************************************************************)
(* main, line 89: the set of identifiers of all rows                       *)
(***************************************************************************)
\* every identifier of a parsed dict
dict_ids(d) ==
    UNION { Range(d[i].ids) : i \in DOMAIN d }

\* set(acc for row in df[...] for key in parse(row) for acc in parse(row)[key]):
\* rows are parsed in order and the first exception escapes
RECURSIVE collect_accessions(_, _, _)
collect_accessions(rows, seg, acc) ==
    IF rows = <<>> THEN [exc |-> "none", ids |-> acc]
    ELSE LET r == parse_accession_ids(Head(rows).Accession, seg)
         IN  IF r.exc # "none" THEN [exc |-> r.exc, ids |-> {}]
             ELSE collect_accessions(Tail(rows), seg, acc \cup dict_ids(r.dict))

(***************************************************************************)
(* read_fasta_sequences                                                    *)
(***************************************************************************)
\* key_function: record.id.split('.')[0]
record_key(rec) ==
    split(rec.id, Dot)[1]

\* SeqIO.to_dict(records, key_function): one pass in archive order; a key
\* seen before raises ValueError("Duplicate key ...")
RECURSIVE to_dict(_, _)
to_dict(recs, d) ==
    IF recs = <<>> THEN [exc |-> "none", dict |-> d]
    ELSE LET key == record_key(Head(recs))
         IN  IF key \in DOMAIN d THEN [exc |-> "ValueError", dict |-> <<>>]
             ELSE to_dict(Tail(recs),
                          [k \in DOMAIN d \cup {key} |-> IF k = key THEN Head(recs) ELSE d[k]])

\* read_fasta_sequences(fasta_path, accessions)
read_fasta_sequences(recs, accs) ==
    LET records == to_dict(recs, <<>>)
    IN  IF records.exc # "none" THEN [exc |-> records.exc, dict |-> <<>>]
        ELSE [exc |-> "none",
              dict |-> [acc \in accs \cap DOMAIN records.dict |-> records.dict[acc]]]

(***************************************************************************)
(* write_fasta_files                                                       *)
(***************************************************************************)
\* the str '.fasta'
DotFasta ==
    S(<<".", "f", "a", "s", "t", "a">>)

\* f"_{segment}.fasta" if segment != "all" else "_all.fasta"
filename_suffix(seg) ==
    IF seg # All THEN <<Underscore>> \o seg \o DotFasta
    ELSE <<Underscore>> \o All \o DotFasta

\* f"{species}_{virus_name}{filename_suffix}"
output_filename(row, seg) ==
    sanitize_filename(row.Species) \o <<Underscore>> \o sanitize_filename(row.VirusNames)
        \o filename_suffix(seg)

\* the loop of write_ids leaving at the first identifier that is no key
RECURSIVE write_ids_until_miss(_, _)
write_ids_until_miss(ids, seqs) ==
    IF ids = <<>> \/ Head(ids) \notin DOMAIN seqs THEN <<>>
    ELSE <<seqs[Head(ids)]>> \o write_ids_until_miss(Tail(ids), seqs)

\* for acc in acc_dict[key]: if sequences.get(acc): SeqIO.write(...).  A
\* SeqRecord is always true, so the test is whether acc is a key.
RECURSIVE write_ids(_, _)
write_ids(ids, seqs) ==
    IF ids = <<>> THEN <<>>
    ELSE (IF Head(ids) \in DOMAIN seqs THEN <<seqs[Head(ids)]>> ELSE <<>>)
         \o write_ids(Tail(ids), seqs)

\* for key in acc_dict: ... (lines 79-82): the records written, in order
RECURSIVE write_dict(_, _)
write_dict(d, seqs) ==
    IF d = <<>> THEN <<>>
    ELSE write_ids(Head(d).ids, seqs) \o write_dict(Tail(d), seqs)

\* open(filepath, 'a') ... : the records are added to what the file holds
open_a_and_write(folder, path, content) ==
    [f \in DOMAIN folder \cup {path} |->
        IF f = path THEN (IF path \in DOMAIN folder THEN folder[path] ELSE <<>>) \o content
        ELSE folder[f]]

\* open(filepath, 'w') ... : the folder after the file was created or
\* truncated and the records were written to it
open_w_and_write(folder, path, content) ==
    [f \in DOMAIN folder \cup {path} |-> IF f = path THEN content ELSE folder[f]]

(***************************************************************************)
(* Inputs.                                                                 *)
(***************************************************************************)
MaxNameLen == 4
MaxItems == 2
MaxRows == 2
MaxRecords == 2

\* sequences over S of length at most n
SeqsUpTo(A, n) ==
    UNION { [1..k -> A] : k \in 0..n }

RiftValley ==
    S(<<"R","i","f","t"," ","V","a","l","l","e","y"," ","f","e","v","e","r"," ",
        "v","i","r","u","s">>)

SpStrainA ==
    S(<<"S","p","."," ","(","s","t","r","a","i","n"," ","A",")">>)

\* the characters names are made of; 233 is e with acute accent, a letter,
\* and 160 the no-break space, a whitespace character
NameAlphabet ==
    {ord("a"), ord("7"), Underscore, Hyphen, ord(" "), ord("\t"), Dot, ord("("), 233, 160}

\* the strings sanitize_filename is applied to
Names ==
    SeqsUpTo(NameAlphabet, MaxNameLen) \cup {RiftValley, SpStrainA}

X1 == S(<<"X","1">>)
X2 == S(<<"X","2">>)
Y1 == S(<<"Y","1">>)
Y2 == S(<<"Y","2">>)
Y3 == S(<<"Y","3">>)
MN001 == S(<<"M","N","0","0","1">>)
MN002 == S(<<"M","N","0","0","2">>)
MN003 == S(<<"M","N","0","0","3">>)
PREFIX == S(<<"P","R","E","F","I","X">>)

\* the tokens an accession cell is composed of: single identifiers, ranges,
\* and ranges that are reversed, non-numeric or of mismatched prefixes; the
\* numbers of one range are written in Arabic-Indic digits (1633 is the
\* digit one, 1635 the digit three)
TokenPool ==
    { X1,
      X1 \o <<Hyphen>> \o X2,
      Y1 \o <<Hyphen>> \o Y2,
      PREFIX \o S(<<"0","0","7","-">>) \o PREFIX \o S(<<"0","1","0">>),
      S(<<"A","B","9","9","-","A","B","1","0","1">>),
      S(<<"A","B","1","-","C","D","3">>),
      S(<<"X","3","-","X","1">>),
      S(<<"X","1","-","X","Y">>),
      <<ord("X"), 1633, Hyphen, ord("X"), 1635>> }

\* how a cell is laid out: the text after a marker's colon, between the
\* tokens of a group, and between groups (160 is the no-break space)
Styles ==
    { [gap |-> <<>>,       tsep |-> S(<<",">>),      gsep |-> S(<<",">>)],
      [gap |-> S(<<" ">>), tsep |-> S(<<",">>),      gsep |-> S(<<",", " ">>)],
      [gap |-> S(<<" ">>), tsep |-> S(<<",", " ">>), gsep |-> S(<<",", " ">>)],
      [gap |-> S(<<" ">>), tsep |-> S(<<",">>),      gsep |-> S(<<";", " ">>)],
      [gap |-> <<160>>,    tsep |-> S(<<",">>),      gsep |-> S(<<",", " ">>)] }

\* --segment: the choices of the argument parser
Segments ==
    {S(<<"L">>), S(<<"M">>), S(<<"S">>), All}

\* a cell is a sequence of tokens, each either opening a group with a
\* segment marker or continuing the group before it (marker <<>>); the
\* first opens one
Cells ==
    { c \in [items : SeqsUpTo([marker : {<<>>} \cup (Segments \ {All}), token : TokenPool],
                              MaxItems) \ {<<>>},
             style : Styles] :
        c.items[1].marker # <<>> }

\* the text of a cell
RECURSIVE render_items(_, _, _)
render_items(items, k, style) ==
    IF k > Len(items) THEN <<>>
    ELSE (IF items[k].marker # <<>>
          THEN (IF k = 1 THEN <<>> ELSE style.gsep)
               \o items[k].marker \o <<Colon>> \o style.gap \o items[k].token
          ELSE style.tsep \o items[k].token)
         \o render_items(items, k + 1, style)

Render(c) ==
    render_items(c.items, 1, c.style)

\* the spreadsheet rows a table is made of
Row1 ==
    [Species |-> S(<<"F","o","o"," ","b","a","r">>), VirusNames |-> S(<<"V">>),
     Accession |-> S(<<"L",":"," ">>) \o MN001 \o <<Hyphen>> \o MN003,
     Family |-> S(<<"B","u","n","y","a">>), Genus |-> S(<<"P","h","l","e","b","o">>)]

Row2 ==
    [Species |-> S(<<"S","p"," ","(","s","t","r","a","i","n"," ","A",")">>),
     VirusNames |-> S(<<"W">>),
     Accession |-> S(<<"L",":"," ">>) \o MN001 \o S(<<",", " ", "M", ":", " ">>)
                   \o Y1 \o <<Hyphen>> \o Y3 \o <<Comma>> \o MN002,
     Family |-> S(<<"B","u","n","y","a">>), Genus |-> S(<<"O","r","t","h","o">>)]

Row3 ==
    [Species |-> NaN, VirusNames |-> S(<<"W">>),
     Accession |-> S(<<"S",":"," ">>) \o Y2,
     Family |-> S(<<"A","r","e","n","a">>), Genus |-> S(<<"M","a","m","m">>)]

\* the S group holds a range without an end number
Row4 ==
    [Species |-> SpStrainA, VirusNames |-> S(<<"W">>),
     Accession |-> S(<<"S",":"," ">>) \o Y2 \o S(<<"-","Y","X",";"," ","L",":"," ">>) \o MN002,
     Family |-> S(<<"A","r","e","n","a">>), Genus |-> S(<<"M","a","m","m">>)]

\* the species is 'Mamor' and e with acute accent
Row5 ==
    [Species |-> S(<<"M","a","m","o","r">>) \o <<233>>, VirusNames |-> S(<<"Z">>),
     Accession |-> S(<<"M",":"," ">>) \o MN002,
     Family |-> S(<<"B","u","n","y","a">>), Genus |-> S(<<"O","r","t","h","o">>)]

\* a row whose accession and family cells are empty
Row6 ==
    [Species |-> S(<<"F","o","o">>), VirusNames |-> S(<<"Z">>),
     Accession |-> NaN,
     Family |-> NaN, Genus |-> S(<<"O","r","t","h","o">>)]

\* the row of a sheet that has no Family and no Genus column
Row7 ==
    [Species |-> S(<<"F","o","o">>), VirusNames |-> S(<<"Z">>),
     Accession |-> S(<<"L",":"," ">>) \o MN002]

\* the row of a sheet that has no accession column
Row8 ==
    [Species |-> S(<<"F","o","o">>), VirusNames |-> S(<<"Z">>),
     Family |-> S(<<"B","u","n","y","a">>), Genus |-> S(<<"O","r","t","h","o">>)]

RowPool ==
    {Row1, Row2, Row3, Row4, Row5, Row6}

\* the sheets: rows of the pool over all five columns, and the two sheets
\* that lack columns
Tables ==
    SeqsUpTo(RowPool, MaxRows) \cup {<<Row7>>, <<Row8>>}

\* the records of the FASTA archive: two share an identifier once the
\* version suffix is stripped
Rec1 == [id |-> MN001 \o S(<<".","1">>), seq |-> "ACGT"]
Rec2 == [id |-> MN002 \o S(<<".","1">>), seq |-> "GGCC"]
Rec3 == [id |-> MN001 \o S(<<".","2">>), seq |-> "TTAA"]

RecordPool ==
    {Rec1, Rec2, Rec3}

\* archives list each record once
Archives ==
    { a \in SeqsUpTo(RecordPool, MaxRecords) :
        \A i, j \in DOMAIN a : i # j => a[i] # a[j] }

NoFilter ==
    [family |-> <<>>, genus |-> <<>>, species |-> <<>>]

\* --family, --genus, --species: at most one is given; a plain word, an
\* alternation, a name with punctuation (alternatively 'mamor' and capital
\* E with acute accent, 201), and a pattern that does not compile
FilterOptions ==
    { NoFilter,
      [NoFilter EXCEPT !.family = S(<<"b","u","n","y","a">>)],
      [NoFilter EXCEPT !.genus = S(<<"p","h","l","e","b","o","|","m","a","m","m">>)],
      [NoFilter EXCEPT !.species =
          S(<<"s","p","."," ","(","s","t","r","a","i","n"," ","a",")","|","m","a","m","o","r">>)
          \o <<201>>],
      [NoFilter EXCEPT !.species = S(<<"f","o","o","(">>)] }

(***************************************************************************)
(* main(): one run of the script                                           *)
(***************************************************************************)
NoParse ==
    /\ accession_str = <<>>
    /\ cell = [items |-> <<>>, style |-> [gap |-> <<>>, tsep |-> <<>>, gsep |-> <<>>]]
    /\ acc_dict = <<>>

NoSanitize ==
    /\ filename = <<>>
    /\ sanitized = <<>>

NoRun ==
    /\ filters = NoFilter
    /\ table = <<>>
    /\ archive = <<>>
    /\ df = <<>>
    /\ accessions = {}
    /\ sequences = <<>>
    /\ files = <<>>
    /\ row_i = 0
    /\ log = <<>>

Init ==
    /\ pc = "extract"
    /\ segment \in Segments
    /\ filters \in FilterOptions
    /\ table \in Tables
    /\ archive \in Archives
    /\ df = <<>>
    /\ accessions = {}
    /\ sequences = <<>>
    /\ files = <<>>
    /\ row_i = 0
    /\ log = <<>>
    /\ exc = "none"
    /\ NoParse
    /\ NoSanitize

\* line 88
ExtractData ==
    /\ pc = "extract"
    /\ Modelled(filters.family, filters.genus, filters.species)
    /\ \E r \in {extract_data_from_excel(table, segment, filters.family, filters.genus,
                                          filters.species)} :
          /\ df' = r.df
          /\ exc' = r.exc
          /\ pc' = IF r.exc = "none" THEN "collect" ELSE "raised"
    /\ UNCHANGED <<segment, filters, table, archive, accessions, sequences, files,
                   row_i, log, accession_str, cell, acc_dict, filename, sanitized>>

\* line 89
CollectAccessions ==
    /\ pc = "collect"
    /\ \E r \in {collect_accessions(df, segment, {})} :
          /\ accessions' = r.ids
          /\ exc' = r.exc
          /\ pc' = IF r.exc = "none" THEN "read" ELSE "raised"
    /\ UNCHANGED <<segment, filters, table, archive, df, sequences, files,
                   row_i, log, accession_str, cell, acc_dict, filename, sanitized>>

\* line 90
ReadFasta ==
    /\ pc = "read"
    /\ \E r \in {read_fasta_sequences(archive, accessions)} :
          /\ sequences' = r.dict
          /\ exc' = r.exc
          /\ pc' = IF r.exc = "none" THEN "write" ELSE "raised"
    /\ UNCHANGED <<segment, filters, table, archive, df, accessions, files,
                   row_i, log, accession_str, cell, acc_dict, filename, sanitized>>

\* line 91, one pass of the loop of write_fasta_files (lines 71-83)
WriteRow ==
    /\ pc = "write"
    /\ row_i < Len(df)
    /\ \E path \in {output_filename(df[row_i + 1], segment)},
          r \in {parse_accession_ids(df[row_i + 1].Accession, segment)} :
          IF r.exc # "none"
          THEN /\ exc' = r.exc
               /\ pc' = "raised"
               /\ UNCHANGED <<files, row_i, log>>
          ELSE /\ files' = open_w_and_write(files, path, write_dict(r.dict, sequences))
               /\ log' = Append(log, [level |-> "INFO", msg |-> "Written", arg |-> path])
               /\ row_i' = row_i + 1
               /\ UNCHANGED <<pc, exc>>
    /\ UNCHANGED <<segment, filters, table, archive, df, accessions, sequences,
                   accession_str, cell, acc_dict, filename, sanitized>>

\* the loop is exhausted: write_fasta_files and main return
Return ==
    /\ pc = "write"
    /\ row_i = Len(df)
    /\ pc' = "done"
    /\ UNCHANGED <<segment, filters, table, archive, df, accessions, sequences, files,
                   row_i, log, exc, accession_str, cell, acc_dict, filename, sanitized>>

Next ==
    \/ ExtractData
    \/ CollectAccessions
    \/ ReadFasta
    \/ WriteRow
    \/ Return

Spec ==
    Init /\ [][Next]_vars

(***************************************************************************)
(* parse_accession_ids applied to one cell                                 *)
(***************************************************************************)
InitParse ==
    /\ pc = "parse"
    /\ segment \in Segments
    /\ cell \in Cells
    /\ accession_str = Render(cell)
    /\ acc_dict = <<>>
    /\ exc = "none"
    /\ NoRun
    /\ NoSanitize

ParseCell ==
    /\ pc = "parse"
    /\ \E r \in {parse_accession_ids(accession_str, segment)} :
          /\ acc_dict' = r.dict
          /\ exc' = r.exc
          /\ pc' = IF r.exc = "none" THEN "parsed" ELSE "raised"
    /\ UNCHANGED <<segment, filters, table, archive, df, accessions, sequences, files,
                   row_i, log, accession_str, cell, filename, sanitized>>

NextParse ==
    ParseCell

SpecParse ==
    InitParse /\ [][NextParse]_vars

(***************************************************************************)
(* sanitize_filename applied to one name                                   *)
(***************************************************************************)
InitSanitize ==
    /\ pc = "sanitize"
    /\ segment = All
    /\ filename \in Names
    /\ sanitized = <<>>
    /\ exc = "none"
    /\ NoRun
    /\ NoParse

SanitizeName ==
    /\ pc = "sanitize"
    /\ sanitized' = sanitize_filename(filename)
    /\ pc' = "sanitized"
    /\ UNCHANGED <<segment, filters, table, archive, df, accessions, sequences, files,
                   row_i, log, exc, accession_str, cell, acc_dict, filename>>

NextSanitize ==
    SanitizeName

SpecSanitize ==
    InitSanitize /\ [][NextSanitize]_vars

(***************************************************************************)
(* Properties of parse_accession_ids (checked under SpecParse)             *)
(***************************************************************************)
\* the concatenation of a sequence of sequences
RECURSIVE Flatten(_)
Flatten(ss) ==
    IF ss = <<>> THEN <<>> ELSE Head(ss) \o Flatten(Tail(ss))

\* the n-th smallest element of a finite set of integers
NthOf(A, n) ==
    CHOOSE i \in A : Cardinality({j \in A : j <= i}) = n

\* the marker of the group item k of a cell belongs to
GroupMarker(items, k) ==
    items[CHOOSE j \in 1..k :
              items[j].marker # <<>> /\ \A m \in (j + 1)..k : items[m].marker = <<>>].marker

\* the tokens of all groups of the cell that a marker `code` introduces, in
\* the order of the text
TokensOf(c, code) ==
    LET idx == { k \in DOMAIN c.items : GroupMarker(c.items, k) = code }
    IN  [n \in 1..Cardinality(idx) |-> c.items[NthOf(idx, n)].token]

\* the segment codes a cell declares
MarkersOf(c) ==
    { c.items[k].marker : k \in DOMAIN c.items } \ {<<>>}

Kept(code) ==
    segment = All \/ segment = code

IsRangeToken(t) ==
    \E i \in DOMAIN t : t[i] = Hyphen

RangeStart(t) ==
    split(t, Hyphen)[1]

RangeEnd(t) ==
    split(t, Hyphen)[2]

DigitsOf(x) ==
    search_trailing_digits(x)

PrefixOf(x) ==
    SubSeq(x, 1, Len(x) - Len(DigitsOf(x)))

\* START-END with the same prefix and end number >= start number
WellFormedRange(t) ==
    /\ IsRangeToken(t)
    /\ DigitsOf(RangeStart(t)) # <<>>
    /\ DigitsOf(RangeEnd(t)) # <<>>
    /\ PrefixOf(RangeStart(t)) = PrefixOf(RangeEnd(t))
    /\ int(DigitsOf(RangeEnd(t))).val >= int(DigitsOf(RangeStart(t))).val

\* END without a trailing digit run, or end number < start number
MalformedRange(t) ==
    /\ IsRangeToken(t)
    /\ DigitsOf(RangeStart(t)) # <<>>
    /\ \/ DigitsOf(RangeEnd(t)) = <<>>
       \/ int(DigitsOf(RangeEnd(t))).val < int(DigitsOf(RangeStart(t))).val

\* END's prefix differs from START's
MismatchedRange(t) ==
    /\ IsRangeToken(t)
    /\ PrefixOf(RangeStart(t)) # PrefixOf(RangeEnd(t))

\* n in decimal, left-padded with zeros to at least `width` digits
ZeroPadded(n, width) ==
    LET d == format_int(n)
    IN  [i \in 1..(IF width > Len(d) THEN width - Len(d) ELSE 0) |-> Zero] \o d

\* the identifiers a well-formed range stands for: one per integer of
\* [start, end], the number at the digit width of START
PaddedExpansion(t) ==
    LET lo == int(DigitsOf(RangeStart(t))).val
        hi == int(DigitsOf(RangeEnd(t))).val
    IN  [n \in 1..(hi - lo + 1) |->
            PrefixOf(RangeStart(t)) \o ZeroPadded(lo + n - 1, Len(DigitsOf(RangeStart(t))))]

\* the identifiers the parser makes of one token taken alone; none when
\* the token fails
TokenIds(t) ==
    IF expand_part(t).exc = "none" THEN expand_part(t).ids ELSE <<>>

\* the list the returned dict holds under a code (empty when the key is absent)
ListUnder(d, code) ==
    IF \E i \in DOMAIN d : d[i].key = code
    THEN d[CHOOSE i \in DOMAIN d : d[i].key = code].ids
    ELSE <<>>

KeysOf(d) ==
    { d[i].key : i \in DOMAIN d }

\* C1: a cell holding one well-formed range START-END under a kept marker
\* parses to exactly one identifier per integer of [start, end], ascending,
\* each START's prefix followed by the number zero-padded to START's digit
\* width (PREFIX007-PREFIX010 gives PREFIX007 .. PREFIX010, AB99-AB101
\* gives AB99, AB100, AB101).
C1_RangeExpansionKeepsWidth ==
    ( /\ pc # "parse"
      /\ Len(cell.items) = 1
      /\ WellFormedRange(cell.items[1].token)
      /\ Kept(cell.items[1].marker) )
    => /\ exc = "none"
       /\ acc_dict = <<[key |-> cell.items[1].marker,
                        ids |-> PaddedExpansion(cell.items[1].token)]>>

\* C2: for a cell that declares several segments and a specific filter c,
\* the returned dict has no key but c, and every identifier under c comes
\* from a token of a group that a "c:" marker introduces, whatever
\* separates the groups.
C2_SegmentIsolation ==
    ( /\ pc = "parsed"
      /\ segment # All
      /\ Cardinality(MarkersOf(cell)) >= 2 )
    => /\ KeysOf(acc_dict) \subseteq {segment}
       /\ Range(ListUnder(acc_dict, segment))
            \subseteq UNION { Range(TokenIds(TokensOf(cell, segment)[n])) :
                                n \in DOMAIN TokensOf(cell, segment) }

\* C3: a malformed range token (END without digits, or end < start) in a
\* kept group never aborts the parse: no exception escapes and the token
\* contributes no identifier.
C3_MalformedRangeSkipped ==
    ( /\ pc # "parse"
      /\ \A k \in DOMAIN cell.items :
            Kept(GroupMarker(cell.items, k)) =>
                \/ ~IsRangeToken(cell.items[k].token)
                \/ WellFormedRange(cell.items[k].token)
                \/ MalformedRange(cell.items[k].token)
      /\ \E k \in DOMAIN cell.items :
            Kept(GroupMarker(cell.items, k)) /\ MalformedRange(cell.items[k].token) )
    => /\ exc = "none"
       /\ pc = "parsed"

\* C6: for every kept code, the list returned under it is the concatenation,
\* in the order of the text, of the expansions of all tokens of all groups
\* that a marker of that code introduces: nothing lost, reordered or
\* deduplicated.
C6_NoTokenLost ==
    pc = "parsed"
    => \A code \in Segments \ {All} :
          Kept(code) =>
             ListUnder(acc_dict, code)
               = Flatten([n \in DOMAIN TokensOf(cell, code) |->
                             TokenIds(TokensOf(cell, code)[n])])

\* C8: a range token whose END has another prefix than START is a parse
\* failure: the parser emits no identifier for it.
C8_PrefixMismatchRejected ==
    ( /\ pc # "parse"
      /\ Len(cell.items) = 1
      /\ MismatchedRange(cell.items[1].token)
      /\ Kept(cell.items[1].marker) )
    => dict_ids(acc_dict) = {}

(***************************************************************************)
(* Properties of sanitize_filename (checked under SpecSanitize)            *)
(***************************************************************************)
\* an alphanumeric character
IsAlnum(c) ==
    IsWord(c) /\ c # Underscore

\* `out` is `name` with the characters that are not alphanumeric, hyphen,
\* whitespace or a character of `also` removed and then every maximal run
\* of whitespace replaced by one underscore: the heads are the characters
\* that survive the second step
IsSanitizedBy(out, name, also) ==
    LET K == SelectSeq(name, LAMBDA c : IsAlnum(c) \/ c = Hyphen \/ c \in also \/ IsSpace(c))
        heads == { i \in DOMAIN K : ~(IsSpace(K[i]) /\ i > 1 /\ IsSpace(K[i - 1])) }
    IN  /\ Len(out) = Cardinality(heads)
        /\ \A n \in DOMAIN out :
              out[n] = IF IsSpace(K[NthOf(heads, n)]) THEN Underscore ELSE K[NthOf(heads, n)]

Rift_Valley_fever_virus ==
    S(<<"R","i","f","t","_","V","a","l","l","e","y","_","f","e","v","e","r","_",
        "v","i","r","u","s">>)

Sp_strain_A ==
    S(<<"S","p","_","s","t","r","a","i","n","_","A">>)

\* C7 as stated: the result is the input with every character that is not
\* alphanumeric, whitespace or hyphen removed (an underscore of the input
\* does not survive) and every maximal whitespace run made one underscore.
C7_SanitizeDropsUnderscore ==
    pc = "sanitized"
    => IsSanitizedBy(sanitized, filename, {})

\* C7 amended: the result is the input with every character that is not
\* alphanumeric, underscore, whitespace or hyphen removed and then every
\* maximal whitespace run replaced by exactly one underscore; the two
\* examples of the specification come out as it says.
C7_Sanitize ==
    pc = "sanitized"
    => /\ IsSanitizedBy(sanitized, filename, {Underscore})
       /\ filename = RiftValley => sanitized = Rift_Valley_fever_virus
       /\ filename = SpStrainA => sanitized = Sp_strain_A

\* a name with an underscore, punctuation and a whitespace run was sanitized:
\* the underscore stays, the punctuation goes, the run becomes one underscore
C7_Witness ==
    /\ pc = "sanitized"
    /\ Underscore \in Range(filename)
    /\ Dot \in Range(filename)
    /\ \E i \in 1..(Len(filename) - 1) : IsSpace(filename[i]) /\ IsSpace(filename[i + 1])
    /\ sanitized = <<Underscore, Underscore>>

(***************************************************************************)
(* Properties of the run (checked under Spec)                              *)
(***************************************************************************)
\* a record's identifier up to its first '.'
StrippedId(rec) ==
    LET dots == { i \in DOMAIN rec.id : rec.id[i] = Dot }
    IN  IF dots = {} THEN rec.id
        ELSE SubSeq(rec.id, 1, (CHOOSE i \in dots : \A j \in dots : i <= j) - 1)

InArchive(id) ==
    \E i \in DOMAIN archive : StrippedId(archive[i]) = id

\* the first entry of the archive with that identifier
FirstInArchive(id) ==
    archive[CHOOSE i \in DOMAIN archive :
                /\ StrippedId(archive[i]) = id
                /\ \A j \in 1..(i - 1) : StrippedId(archive[j]) # id]

HasDuplicateIds ==
    \E i, j \in DOMAIN archive : i # j /\ StrippedId(archive[i]) = StrippedId(archive[j])

\* the identifiers of a parsed dict, in segment order and then token order
AllIds(d) ==
    Flatten([i \in DOMAIN d |-> d[i].ids])

\* the payloads of the identifiers of a row that the archive holds, one per
\* occurrence, in segment order and then token order
Resolved(row) ==
    LET ids == AllIds(parse_accession_ids(row.Accession, segment).dict)
        hit == { n \in DOMAIN ids : InArchive(ids[n]) }
    IN  [m \in 1..Cardinality(hit) |-> FirstInArchive(ids[NthOf(hit, m)])]

Foo_bar_V_all ==
    S(<<"F","o","o","_","b","a","r","_","V","_","a","l","l",".","f","a","s","t","a">>)

\* C4: building the index from an archive in which two entries share an
\* identifier once the version suffix is stripped succeeds, and the index
\* maps the identifier to the first such entry.
C4_FirstSeenWins ==
    [][ (pc = "read" /\ HasDuplicateIds)
        => /\ pc' = "write"
           /\ exc' = "none"
           /\ \A acc \in accessions :
                 InArchive(acc) => /\ acc \in DOMAIN sequences'
                                   /\ sequences'[acc] = FirstInArchive(acc) ]_vars

\* C5: the row ("Foo bar", V, "L: MN001-MN003") with filter all and an
\* archive holding MN001 and MN002 but not MN003 yields the unit
\* Foo_bar_V_all with exactly the sequences MN001, MN002 in that order, and
\* one unresolved-identifier diagnostic for MN003.
C5_EndToEnd ==
    ( /\ pc = "done"
      /\ segment = All
      /\ \E k \in DOMAIN df : df[k].Species = Row1.Species /\ df[k].VirusNames = Row1.VirusNames
                              /\ df[k].Accession = Row1.Accession
      /\ archive = <<Rec1, Rec2>> )
    => /\ Foo_bar_V_all \in DOMAIN files
       /\ files[Foo_bar_V_all] = <<Rec1, Rec2>>
       /\ Cardinality({ i \in DOMAIN log : log[i].msg = "Unresolved" /\ log[i].arg = MN003 }) = 1

\* C9: the unit written for a row holds exactly the payloads of the row's
\* identifiers that the index holds, one per occurrence, in segment order
\* and then token order; an absent identifier is skipped and stops neither
\* the identifiers after it nor the rows after it, and a row that resolves
\* nothing still yields its (empty) unit.
C9_WriterUnit ==
    /\ (pc \in {"write", "done"} /\ row_i > 0)
       => /\ output_filename(df[row_i], segment) \in DOMAIN files
          /\ files[output_filename(df[row_i], segment)] = Resolved(df[row_i])
    /\ pc = "done"
       => /\ row_i = Len(df)
          /\ \A k \in DOMAIN df : output_filename(df[k], segment) \in DOMAIN files

\* a row was written whose identifiers miss the index before a later one hits
C9_Witness ==
    /\ pc = "done"
    /\ row_i > 0
    /\ LET ids == AllIds(parse_accession_ids(df[row_i].Accession, segment).dict)
       IN  \E m, n \in DOMAIN ids : m < n /\ ~InArchive(ids[m]) /\ InArchive(ids[n])
    /\ Len(files[output_filename(df[row_i], segment)]) >= 2

\* C10: units are never merged: every unit holds exactly the resolved
\* sequences of the last processed row whose sanitized species, sanitized
\* virus name and segment suffix produce its name.
C10_LastRowWins ==
    pc \in {"write", "done"}
    => /\ DOMAIN files = { output_filename(df[k], segment) : k \in 1..row_i }
       /\ \A f \in DOMAIN files :
             LET same == { k \in 1..row_i : output_filename(df[k], segment) = f }
                 last == CHOOSE k \in same : \A j \in same : j <= k
             IN  files[f] = Resolved(df[last])

\* two different rows produced the same name, both resolved sequences, and
\* the unit lacks a sequence of the earlier row
C10_Witness ==
    /\ pc = "done"
    /\ \E j, k \in 1..row_i :
          /\ j < k
          /\ df[j] # df[k]
          /\ output_filename(df[j], segment) = output_filename(df[k], segment)
          /\ Resolved(df[j]) # <<>>
          /\ Resolved(df[k]) # <<>>
          /\ \E n \in DOMAIN Resolved(df[j]) :
                Resolved(df[j])[n] \notin Range(files[output_filename(df[k], segment)])

====
